---- MODULE Spec2Model ----
(***************************************************************************)
(* A model of the troubleshooting scripts of the Flipkart recommender      *)
(* repository: the resumable fetcher download_file                         *)
(* (download_packages.py, download_packages_simple.py) and the wheel       *)
(* compatibility classifier is_compatible_wheel                            *)
(* (clean_incompatible_wheels.py).                                         *)
(*                                                                         *)
(* Environment of the fetcher: an HTTP file server holding one resource.   *)
(* The server honours a Range request (206 with the tail of the resource,  *)
(* 416 when the range starts at or after the end) and may or may not send  *)
(* a Content-Length header.  A connection may fail when it is opened or    *)
(* between two reads of the body: with an exception (TimeoutError, or an   *)
(* OSError that is no URLError), or silently, as http.client's read(amt)   *)
(* returns b'' on a premature end of the body.                             *)
(***************************************************************************)
EXTENDS Integers, Sequences, FiniteSets, TLC

\* ------------------------------------------------------------------ bounds
\* Longest remote resource, in bytes.
MaxLen == 3
\* Most bytes one response.read(CHUNK_SIZE) returns (CHUNK_SIZE scaled down).
MaxChunk == 2
\* Invocations of download_file on the same path in one behaviour.
MaxCalls == 2
\* Newest minor version of Python 3 among wheels and targets (oldest: 3.7).
MaxMinor == 12
\* Most files in the list of one release.
MaxFiles == 3
\* Most packages of a requirements list.
MaxPackages == 3
\* Most wheels in the downloads directory.
MaxWheels == 2
\* Most records of failed_packages.txt.
MaxRecords == 2

\* ------------------------------------------------------- program constants
MAX_RETRIES == 5
RETRY_DELAY == 3

VARIABLES
    remote,       \* the bytes of the remote resource
    srvLength,    \* the server sends Content-Length headers
    disk,         \* the destination path: [exists, data]
    pc,           \* position in download_file: idle, attempt, transfer
    calls,        \* invocations started so far
    resume,       \* the resume argument of the current invocation
    resume_pos,   \* local resume_pos
    attempt,      \* loop index of "for attempt in range(MAX_RETRIES)"
    downloaded,   \* local downloaded
    total_size,   \* local total_size
    body,         \* bytes of the response not yet read
    result,       \* what the last invocation returned: [ok, msg, err]
    h,            \* history of the current invocation (observation only)
    wheel,        \* the wheel filename under classification: [parts, name]
    target,       \* the target environment: [system, machine, major, minor]
    verdict,      \* what is_compatible_wheel returned: none, yes, no
    package_info, \* the index's record of a package: [info, releases]
    requested,    \* the version asked of find_best_wheel, or NoVersion
    interpreter,  \* the interpreter download_packages.py runs under
    best,         \* what find_best_wheel returned, or Pending
    main_pc,      \* position in main of download_packages.py: start, loop, done
    packages,     \* local packages, as the sequence of its items
    position,     \* packages the loop is done with
    stats,        \* local stats
    failed_packages, \* local failed_packages
    failed_file,  \* failed_packages.txt: [exists, text]
    exit_status,  \* what main returned, -1 before
    outcomes,     \* what happened to each package of the run (observation only)
    clean_pc,     \* position in main of clean_incompatible_wheels.py
    downloads,    \* the downloads directory: [exists, wheels]
    clean_env,    \* the interpreter clean_incompatible_wheels.py runs under
    compatible,   \* local compatible
    incompatible, \* local incompatible
    remove_pos,   \* elements of incompatible the removal loop is done with
    removed_count, \* local removed_count
    unlink_failures, \* unlink calls that raised (observation only)
    clean_exit,   \* what main returned, -1 before
    \* retry_failed.py main
    retry_pc,       \* "start", "loop", "done"
    retry_list,     \* packages: the pairs parse_failed_packages_file returned
    retry_pos,      \* the pairs the loop is done with
    retry_stats,    \* stats
    retry_exit,     \* the exit status of the script, -1 before
    retry_results,  \* history: what retry_package returned, pair by pair
    retry_raised,   \* history: what was raised inside main, "none" if nothing
    written,        \* history: the failures the file was written from
    file_before,    \* history: failed_packages.txt when the run started
    \* check_corrupted_wheels.py main
    check_pc,       \* "start", "scan", "delete", "done"
    archives,       \* the downloads directory: [exists, files]
    scan_pos,       \* the wheels the first loop is done with
    corrupted,      \* corrupted
    valid,          \* valid
    delete_pos,     \* the wheels the second loop is done with
    check_exit,     \* the exit status of the script, -1 before
    check_raised,   \* history: what ended the run, "none" if main returned
    delete_failures \* history: the unlink calls that raised

fvars == <<remote, srvLength, disk, pc, calls, resume, resume_pos, attempt,
           downloaded, total_size, body, result, h>>

\* The classifier's variables.
cvars == <<wheel, target, verdict>>

\* The variables of find_best_wheel.
svars == <<package_info, requested, interpreter, best>>

\* The variables of main of download_packages.py.
mvars == <<main_pc, packages, position, stats, failed_packages,
           failed_file, exit_status, outcomes>>

\* The variables of main of clean_incompatible_wheels.py.
kvars == <<clean_pc, downloads, clean_env, compatible, incompatible,
           remove_pos, removed_count, unlink_failures, clean_exit>>

\* The variables of main of retry_failed.py, which shares failed_file with
\* main of download_packages.py.
rvars == <<retry_pc, retry_list, retry_pos, retry_stats, retry_exit,
           retry_results, retry_raised, written, file_before>>

\* The variables of main of download_packages.py but the file.
mlocal == <<main_pc, packages, position, stats, failed_packages, exit_status,
            outcomes>>

\* The variables of main of check_corrupted_wheels.py.
xvars == <<check_pc, archives, scan_pos, corrupted, valid, delete_pos,
           check_exit, check_raised, delete_failures>>

\* What each component leaves alone.
nonFetcher == <<cvars, svars, mvars, kvars, rvars, xvars>>
nonClassifier == <<fvars, svars, mvars, kvars, rvars, xvars>>
nonSelector == <<fvars, cvars, mvars, kvars, rvars, xvars>>
nonMain == <<fvars, cvars, svars, kvars, rvars, xvars>>
nonClean == <<fvars, cvars, svars, mvars, rvars, xvars>>
nonRetry == <<fvars, cvars, svars, mlocal, kvars, xvars>>
nonCheck == <<fvars, cvars, svars, mvars, kvars, rvars>>

vars == <<fvars, cvars, svars, mvars, kvars, rvars, xvars>>

\* ---------------------------------------------------------------- helpers
Min(a, b) == IF a < b THEN a ELSE b

\* The resource of n bytes; byte i has the value i, so that any byte out of
\* place shows.
Resource(n) == [i \in 1..n |-> i]

IsPrefix(s, t) == Len(s) <= Len(t) /\ s = SubSeq(t, 1, Len(s))

NoFile == [exists |-> FALSE, data |-> <<>>]
File(d) == [exists |-> TRUE, data |-> d]

NoResult == [ok |-> FALSE, msg |-> "none", err |-> "none"]

\* History of an invocation, reset when download_file is entered.
NoHistory ==
    [ prevMsg    |-> "none",  \* how the previous invocation ended
      startDisk  |-> NoFile,  \* the destination when the call began
      probe      |-> 0,       \* what get_file_size returned (0: not probed)
      requests   |-> 0,       \* urlopen calls of the attempt loop
      slept      |-> 0,       \* seconds slept between attempts
      lastErr    |-> "none",  \* the last exception an attempt raised
      wroteFail  |-> 0,       \* bytes the last failed attempt wrote
      reqStart   |-> 0,       \* first byte the current request asked for
      lenAtReq   |-> 0,       \* on-disk length when that request was sent
      mode       |-> "none",  \* mode the destination was opened in
      lenAtOpen  |-> 0,       \* on-disk length right after open()
      bodyLen    |-> 0,       \* bytes the server has for this request
      header     |-> FALSE,   \* the response carries Content-Length
      wrote      |-> 0 ]      \* bytes this attempt wrote

\* ------------------------------------------------------------ environment
NetworkErrors == {"URLError", "HTTPError", "TimeoutError"}
LocalErrors == {"OSError"}

\* The body a server answers with to "Range: bytes=start-" (start = 0: no
\* Range header, the whole resource).
ServerBody(res, start) == SubSeq(res, start + 1, Len(res))

\* 416 Range Not Satisfiable: the range starts at or after the end.
RangeNotSatisfiable(res, start) == start > 0 /\ start >= Len(res)

\* ------------------------------------------------------- download_file
\* get_file_size: Content-Length of a probe request, 0 when the header is
\* missing or the request raises.
get_file_size(probeOk, hasLength, res) ==
    IF probeOk /\ hasLength THEN Len(res) ELSE 0

\* A slip of the comparison: complete only when longer than the resource.
IsComplete_Longer(file_size, remote_size) ==
    remote_size > 0 /\ file_size > remote_size

\* "if remote_size > 0 and file_size == remote_size"
IsComplete(file_size, remote_size) ==
    remote_size > 0 /\ file_size = remote_size

\* resume_pos as computed once, before the attempt loop.
ResumePos(d, remote_size, allowResume) ==
    IF d.exists /\ ~IsComplete(Len(d.data), remote_size)
       /\ allowResume /\ Len(d.data) > 0
    THEN Len(d.data) ELSE 0

\* "mode = 'ab' if resume_pos > 0 else 'wb'"
OpenMode(pos) == IF pos > 0 THEN "ab" ELSE "wb"

\* open(filepath, mode): 'wb' truncates, 'ab' keeps what is there.
OpenFile(d, mode) ==
    IF mode = "ab" THEN File(d.data) ELSE File(<<>>)

\* "total_size = resume_pos + int(response.headers.get('Content-Length', 0))"
TotalSize(pos, hasHeader, len) == pos + (IF hasHeader THEN len ELSE 0)

\* A slip of the comparison: only an over-long transfer is a mismatch.
SizeMismatch_OnlyLonger(total, got) == total > 0 /\ got > total

\* "if total_size > 0 and downloaded != total_size: raise Exception(...)"
SizeMismatch(total, got) == total > 0 /\ got # total

\* A wider except clause: every OSError is retried.
IsNetworkError_AnyOSError(e) == e \in NetworkErrors \cup {"OSError"}

\* "except (URLError, HTTPError, TimeoutError)"
IsNetworkError(e) == e \in NetworkErrors

\* An off-by-one of the ceiling test.
MayRetry_OneMore(a) == a < MAX_RETRIES

\* "if attempt < MAX_RETRIES - 1"
MayRetry(a) == a < MAX_RETRIES - 1

Return(ok, msg, err) ==
    /\ result' = [ok |-> ok, msg |-> msg, err |-> err]
    /\ pc' = "idle"

\* An exception e raised inside the try block of the attempt loop, with hist
\* the history up to the raise.
Raise(e, hist) ==
    IF IsNetworkError(e)
    THEN IF MayRetry(attempt)
         THEN \* time.sleep(RETRY_DELAY), then the next pass of the for loop,
              \* or the statement after an exhausted loop
              /\ h' = [hist EXCEPT !.lastErr = e,
                                   !.slept = @ + RETRY_DELAY,
                                   !.wroteFail = hist.wrote]
              /\ IF attempt + 1 < MAX_RETRIES
                 THEN /\ attempt' = attempt + 1
                      /\ pc' = "attempt"
                      /\ UNCHANGED result
                 ELSE /\ Return(FALSE, "Max retries exceeded", e)
                      /\ UNCHANGED attempt
         ELSE /\ Return(FALSE, "Failed after", e)
              /\ h' = [hist EXCEPT !.lastErr = e, !.wroteFail = hist.wrote]
              /\ UNCHANGED attempt
    ELSE /\ Return(FALSE, "Error", e)
         /\ h' = [hist EXCEPT !.lastErr = e, !.wroteFail = hist.wrote]
         /\ UNCHANGED attempt

\* download_file is entered; the destination is examined and, if it
\* exists, the remote size is probed.
Invoke ==
    /\ pc = "idle"
    /\ calls < MaxCalls
    /\ \E allowResume \in BOOLEAN, probeOk \in BOOLEAN :
         LET remote_size == IF disk.exists
                            THEN get_file_size(probeOk, srvLength, remote)
                            ELSE 0
             hist == [NoHistory EXCEPT !.prevMsg = result.msg,
                                       !.startDisk = disk,
                                       !.probe = remote_size]
         IN /\ resume' = allowResume
            /\ calls' = calls + 1
            /\ h' = hist
            /\ attempt' = 0
            /\ downloaded' = 0
            /\ total_size' = 0
            /\ body' = <<>>
            /\ IF disk.exists /\ IsComplete(Len(disk.data), remote_size)
               THEN /\ Return(TRUE, "already complete", "none")
                    /\ resume_pos' = 0
               ELSE /\ resume_pos' = ResumePos(disk, remote_size, allowResume)
                    /\ pc' = "attempt"
                    /\ result' = NoResult
    /\ UNCHANGED nonFetcher
    /\ UNCHANGED <<remote, srvLength, disk>>

\* urlopen raises before any response: connection error, HTTP error status
\* or timeout.
UrlopenFails ==
    /\ pc = "attempt"
    /\ \E e \in NetworkErrors :
         Raise(e, [h EXCEPT !.requests = @ + 1, !.reqStart = resume_pos,
                            !.lenAtReq = Len(disk.data), !.wrote = 0])
    /\ UNCHANGED nonFetcher
    /\ UNCHANGED <<remote, srvLength, disk, calls, resume, resume_pos,
                   downloaded, total_size, body>>

\* urlopen is answered: 416 for an unsatisfiable range, else the response
\* whose body starts at resume_pos; the destination is opened.
UrlopenAnswered ==
    /\ pc = "attempt"
    /\ LET hist == [h EXCEPT !.requests = @ + 1, !.reqStart = resume_pos,
                             !.lenAtReq = Len(disk.data), !.wrote = 0]
       IN IF RangeNotSatisfiable(remote, resume_pos)
          THEN /\ Raise("HTTPError", hist)
               /\ UNCHANGED <<disk, downloaded, total_size, body>>
          ELSE LET b == ServerBody(remote, resume_pos)
                   mode == OpenMode(resume_pos)
                   f == OpenFile(disk, mode)
               IN /\ disk' = f
                  /\ body' = b
                  /\ downloaded' = resume_pos
                  /\ total_size' = TotalSize(resume_pos, srvLength, Len(b))
                  /\ h' = [hist EXCEPT !.mode = mode,
                                       !.lenAtOpen = Len(f.data),
                                       !.bodyLen = Len(b),
                                       !.header = srvLength]
                  /\ pc' = "transfer"
                  /\ UNCHANGED <<attempt, result>>
    /\ UNCHANGED nonFetcher
    /\ UNCHANGED <<remote, srvLength, calls, resume, resume_pos>>

\* urlopen is answered but open(filepath, mode) raises (permission denied).
OpenFails ==
    /\ pc = "attempt"
    /\ ~RangeNotSatisfiable(remote, resume_pos)
    /\ \E e \in LocalErrors :
         Raise(e, [h EXCEPT !.requests = @ + 1, !.reqStart = resume_pos,
                            !.lenAtReq = Len(disk.data), !.wrote = 0])
    /\ UNCHANGED nonFetcher
    /\ UNCHANGED <<remote, srvLength, disk, calls, resume, resume_pos,
                   downloaded, total_size, body>>

\* One pass of the while loop with a non-empty chunk: read, write, count.
ReadChunk ==
    /\ pc = "transfer"
    /\ body # <<>>
    /\ LET n == Min(MaxChunk, Len(body))
           chunk == SubSeq(body, 1, n)
       IN /\ disk' = File(disk.data \o chunk)
          /\ body' = SubSeq(body, n + 1, Len(body))
          /\ downloaded' = downloaded + Len(chunk)
          /\ h' = [h EXCEPT !.wrote = @ + Len(chunk)]
    /\ UNCHANGED nonFetcher
    /\ UNCHANGED <<remote, srvLength, pc, calls, resume, resume_pos, attempt,
                   total_size, result>>

\* response.read returns b'': the body ended, or the connection was closed
\* early (premature = TRUE). The loop breaks and the size is verified.
ReadEnd ==
    /\ pc = "transfer"
    /\ \E premature \in BOOLEAN :
         /\ premature <=> body # <<>>
         /\ IF SizeMismatch(total_size, downloaded)
            THEN Raise("Exception", h)
            ELSE /\ Return(TRUE, "downloaded", "none")
                 /\ UNCHANGED <<attempt, h>>
    /\ UNCHANGED nonFetcher
    /\ UNCHANGED <<remote, srvLength, disk, calls, resume, resume_pos,
                   downloaded, total_size, body>>

\* response.read raises: a timeout (network-layer), or an OSError that is
\* no URLError (connection reset); or f.write raises an OSError (disk full).
TransferRaises ==
    /\ pc = "transfer"
    /\ \E e \in {"TimeoutError"} \cup LocalErrors : Raise(e, h)
    /\ UNCHANGED nonFetcher
    /\ UNCHANGED <<remote, srvLength, disk, calls, resume, resume_pos,
                   downloaded, total_size, body>>

\* The process is interrupted (KeyboardInterrupt is no Exception: it leaves
\* download_file; the with-blocks close the file).
Interrupt ==
    /\ pc \in {"attempt", "transfer"}
    /\ pc' = "idle"
    /\ result' = [ok |-> FALSE, msg |-> "interrupted", err |-> "none"]
    /\ UNCHANGED nonFetcher
    /\ UNCHANGED <<remote, srvLength, disk, calls, resume, resume_pos,
                   attempt, downloaded, total_size, body, h>>

FetcherInit ==
    /\ \E n \in 0..MaxLen : remote = Resource(n)
    /\ srvLength \in BOOLEAN
    /\ \E k \in 0..MaxLen :
         /\ k <= Len(remote)
         /\ disk \in {NoFile, File(SubSeq(remote, 1, k))}
    /\ pc = "idle"
    /\ calls = 0
    /\ resume = TRUE
    /\ resume_pos = 0
    /\ attempt = 0
    /\ downloaded = 0
    /\ total_size = 0
    /\ body = <<>>
    /\ result = NoResult
    /\ h = NoHistory

\* The fetcher at rest, in the behaviours of the other components.
FetcherIdle ==
    /\ remote = <<>>
    /\ srvLength = TRUE
    /\ disk = NoFile
    /\ pc = "idle"
    /\ calls = 0
    /\ resume = TRUE
    /\ resume_pos = 0
    /\ attempt = 0
    /\ downloaded = 0
    /\ total_size = 0
    /\ body = <<>>
    /\ result = NoResult
    /\ h = NoHistory

\* ------------------------------------------------- strings as characters
\* A Python string is the sequence of its characters.
DigitChars == <<"0", "1", "2", "3", "4", "5", "6", "7", "8", "9">>

IsDigit(c) == \E i \in 1..Len(DigitChars) : DigitChars[i] = c

\* int(c) of a digit character.
DigitVal(c) == (CHOOSE i \in 1..Len(DigitChars) : DigitChars[i] = c) - 1

\* str(n) of a natural number, as the f-string formats it.
RECURSIVE IntToChars(_)
IntToChars(n) ==
    IF n < 10 THEN <<DigitChars[n + 1]>>
    ELSE IntToChars(n \div 10) \o <<DigitChars[(n % 10) + 1]>>

\* s[i:].startswith(x), with i counted from 1.
StartsWithAt(s, i, x) ==
    i + Len(x) - 1 <= Len(s) /\ SubSeq(s, i, i + Len(x) - 1) = x

\* "x in s" for a non-empty x.
Contains(s, x) == \E i \in 1..Len(s) : StartsWithAt(s, i, x)

\* The length of the run of digits of s that starts at i: what \d+ takes.
RECURSIVE DigitRun(_, _)
DigitRun(s, i) ==
    IF i <= Len(s) /\ IsDigit(s[i]) THEN 1 + DigitRun(s, i + 1) ELSE 0

S_cp == <<"c", "p">>
S_py == <<"p", "y">>
S_abi == <<"-", "a", "b", "i">>
S_py3 == <<"p", "y", "3">>
S_py2py3 == <<"p", "y", "2", ".", "p", "y", "3">>
S_none_any == <<"n", "o", "n", "e", "-", "a", "n", "y">>
S_universal2 == <<"u", "n", "i", "v", "e", "r", "s", "a", "l", "2">>
S_x86_64 == <<"x", "8", "6", "_", "6", "4">>
S_amd64 == <<"a", "m", "d", "6", "4">>
S_arm64 == <<"a", "r", "m", "6", "4">>
S_aarch64 == <<"a", "a", "r", "c", "h", "6", "4">>

\* The length of the match of
\*   (cp\d+(?:-abi\d+)?|py\d+|py\d+\.py\d+)
\* at position i of s, 0 when there is none. The alternatives are tried in
\* order, so the third one never decides a match: py\d+ matched before it.
TagMatchAt(s, i) ==
    IF StartsWithAt(s, i, S_cp) /\ DigitRun(s, i + 2) > 0
    THEN LET base == 2 + DigitRun(s, i + 2)
         IN IF StartsWithAt(s, i + base, S_abi)
               /\ DigitRun(s, i + base + Len(S_abi)) > 0
            THEN base + Len(S_abi) + DigitRun(s, i + base + Len(S_abi))
            ELSE base
    ELSE IF StartsWithAt(s, i, S_py) /\ DigitRun(s, i + 2) > 0
    THEN 2 + DigitRun(s, i + 2)
    ELSE 0

\* re.findall of that pattern from position i on: the leftmost matches, none
\* overlapping, in order.
RECURSIVE FindTagsFrom(_, _)
FindTagsFrom(s, i) ==
    IF i > Len(s) THEN <<>>
    ELSE LET n == TagMatchAt(s, i)
         IN IF n > 0
            THEN <<SubSeq(s, i, i + n - 1)>> \o FindTagsFrom(s, i + n)
            ELSE FindTagsFrom(s, i + 1)

FindPyTags(filename) == FindTagsFrom(filename, 1)

\* re.search(r'cp(\d)(\d)', tag): the first "cp" followed by two digits;
\* each group is ONE digit.
SearchCpVersion(tag) ==
    LET hits == {i \in 1..Len(tag) :
                    /\ StartsWithAt(tag, i, S_cp)
                    /\ i + 3 <= Len(tag)
                    /\ IsDigit(tag[i + 2]) /\ IsDigit(tag[i + 3])}
    IN IF hits = {}
       THEN [found |-> FALSE, major |-> 0, minor |-> 0]
       ELSE LET i == CHOOSE j \in hits : \A k \in hits : j <= k
            IN [found |-> TRUE,
                major |-> DigitVal(tag[i + 2]),
                minor |-> DigitVal(tag[i + 3])]

\* ------------------------------------------------ is_compatible_wheel
NoneTag == "None"

\* PLATFORM_TAG of clean_incompatible_wheels.py, from platform.system() and
\* platform.machine().
PLATFORM_TAG(system, machine) ==
    IF system = "darwin"
    THEN IF machine \in {"arm64", "aarch64"} THEN "arm64" ELSE "x86_64"
    ELSE IF system = "linux" THEN machine
    ELSE NoneTag

\* INCOMPATIBLE_PLATFORMS of clean_incompatible_wheels.py.
INCOMPATIBLE_PLATFORMS(system, machine) ==
    IF system = "darwin"
    THEN IF machine \in {"arm64", "aarch64"}
         THEN {S_x86_64, S_amd64} ELSE {S_arm64, S_aarch64}
    ELSE IF system = "linux"
    THEN IF machine = "x86_64" THEN {S_arm64} ELSE {S_x86_64, S_amd64}
    ELSE {}

\* cp_tag = f"cp{python_major}{python_minor}"
CpTagOf(major, minor) == S_cp \o IntToChars(major) \o IntToChars(minor)

\* The stable-ABI test of one tag: "wheel version <= current version", on
\* the two digits re.search picks.
StableAbiAccepts(tag, major, minor) ==
    LET m == SearchCpVersion(tag)
    IN /\ Contains(tag, S_abi)
       /\ m.found
       /\ \/ m.major < major
          \/ m.major = major /\ m.minor <= minor

\* One pass of the first loop over py_tags returns True for this tag.
TagAccepts(tag, major, minor) ==
    \/ Contains(tag, CpTagOf(major, minor))
    \/ Contains(tag, S_py3) \/ Contains(tag, S_py2py3)
    \/ StableAbiAccepts(tag, major, minor)

\* The second loop asking for both numbers to differ.
TagRejects_BothDiffer(tag, major, minor) ==
    LET m == SearchCpVersion(tag)
    IN /\ StartsWithAt(tag, 1, S_cp)
       /\ m.found
       /\ ~Contains(tag, S_abi)
       /\ (m.major # major /\ m.minor # minor)

\* One pass of the second loop returns False for this tag.
TagRejects(tag, major, minor) ==
    LET m == SearchCpVersion(tag)
    IN /\ StartsWithAt(tag, 1, S_cp)
       /\ m.found
       /\ ~Contains(tag, S_abi)
       /\ (m.major # major \/ m.minor # minor)

\* The early exit on a platform tag of another architecture.
PlatformRejects(filename, env) ==
    /\ PLATFORM_TAG(env.system, env.machine) # NoneTag
    /\ \E p \in INCOMPATIBLE_PLATFORMS(env.system, env.machine) :
          Contains(filename, p) /\ ~Contains(filename, S_universal2)

\* The function with False as the answer for a name without tags.
is_compatible_wheel_NoTagsRejected(filename, env) ==
    IF Contains(filename, S_none_any) THEN TRUE
    ELSE IF PLATFORM_TAG(env.system, env.machine) # NoneTag
            /\ Contains(filename, S_universal2) THEN TRUE
    ELSE IF PlatformRejects(filename, env) THEN FALSE
    ELSE LET py_tags == FindPyTags(filename)
         IN IF py_tags = <<>> THEN FALSE
            ELSE IF \E i \in 1..Len(py_tags) :
                       TagAccepts(py_tags[i], env.major, env.minor)
            THEN TRUE
            ELSE IF \E i \in 1..Len(py_tags) :
                       TagRejects(py_tags[i], env.major, env.minor)
            THEN FALSE
            ELSE TRUE

\* The function with the first early exit asking for a py3 tag as well, as
\* the universal tier of find_best_wheel does.
is_compatible_wheel_NoneAnyNeedsPy3(filename, env) ==
    IF Contains(filename, S_none_any)
       /\ (Contains(filename, S_py3) \/ Contains(filename, S_py2py3)) THEN TRUE
    ELSE IF PLATFORM_TAG(env.system, env.machine) # NoneTag
            /\ Contains(filename, S_universal2) THEN TRUE
    ELSE IF PlatformRejects(filename, env) THEN FALSE
    ELSE LET py_tags == FindPyTags(filename)
         IN IF py_tags = <<>> THEN TRUE
            ELSE IF \E i \in 1..Len(py_tags) :
                       TagAccepts(py_tags[i], env.major, env.minor)
            THEN TRUE
            ELSE IF \E i \in 1..Len(py_tags) :
                       TagRejects(py_tags[i], env.major, env.minor)
            THEN FALSE
            ELSE TRUE

is_compatible_wheel(filename, env) ==
    IF Contains(filename, S_none_any) THEN TRUE
    ELSE IF PLATFORM_TAG(env.system, env.machine) # NoneTag
            /\ Contains(filename, S_universal2) THEN TRUE
    ELSE IF PlatformRejects(filename, env) THEN FALSE
    ELSE LET py_tags == FindPyTags(filename)
         IN IF py_tags = <<>> THEN TRUE
            ELSE IF \E i \in 1..Len(py_tags) :
                       TagAccepts(py_tags[i], env.major, env.minor)
            THEN TRUE
            ELSE IF \E i \in 1..Len(py_tags) :
                       TagRejects(py_tags[i], env.major, env.minor)
            THEN FALSE
            ELSE TRUE

\* ------------------------------------------------------ wheel filenames
\* Wheel filenames are {name}-{version}-{python}-{abi}-{platform}.whl.
S_pkg == <<"p", "k", "g", "-", "1", ".", "0">>
S_dash == <<"-">>
S_whl == <<".", "w", "h", "l">>
S_abi3 == <<"a", "b", "i", "3">>
S_none == <<"n", "o", "n", "e">>

PlatformChars(plat) ==
    CASE plat = "manylinux2014_x86_64" -> <<"m", "a", "n", "y", "l", "i", "n", "u", "x", "2", "0", "1", "4", "_", "x", "8", "6", "_", "6", "4">>
      [] plat = "manylinux2014_aarch64" -> <<"m", "a", "n", "y", "l", "i", "n", "u", "x", "2", "0", "1", "4", "_", "a", "a", "r", "c", "h", "6", "4">>
      [] plat = "macosx_11_0_arm64" -> <<"m", "a", "c", "o", "s", "x", "_", "1", "1", "_", "0", "_", "a", "r", "m", "6", "4">>
      [] plat = "macosx_10_9_x86_64" -> <<"m", "a", "c", "o", "s", "x", "_", "1", "0", "_", "9", "_", "x", "8", "6", "_", "6", "4">>
      [] plat = "macosx_10_9_universal2" -> <<"m", "a", "c", "o", "s", "x", "_", "1", "0", "_", "9", "_", "u", "n", "i", "v", "e", "r", "s", "a", "l", "2">>
      [] plat = "win_amd64" -> <<"w", "i", "n", "_", "a", "m", "d", "6", "4">>
      [] plat = "win_arm64" -> <<"w", "i", "n", "_", "a", "r", "m", "6", "4">>
      [] plat = "macosx_11_0_universal2" -> <<"m", "a", "c", "o", "s", "x", "_", "1", "1", "_", "0", "_", "u", "n", "i", "v", "e", "r", "s", "a", "l", "2">>
      [] plat = "macosx_10_15_universal2" -> <<"m", "a", "c", "o", "s", "x", "_", "1", "0", "_", "1", "5", "_", "u", "n", "i", "v", "e", "r", "s", "a", "l", "2">>
      [] plat = "macosx_10_13_x86_64" -> <<"m", "a", "c", "o", "s", "x", "_", "1", "0", "_", "1", "3", "_", "x", "8", "6", "_", "6", "4">>
      [] plat = "any" -> <<"a", "n", "y">>

Platforms ==
    {"manylinux2014_x86_64", "manylinux2014_aarch64", "macosx_11_0_arm64",
     "macosx_10_9_x86_64", "macosx_10_9_universal2", "win_amd64", "any",
     "win_arm64", "macosx_11_0_universal2", "macosx_10_15_universal2",
     "macosx_10_13_x86_64"}

\* Minor versions of Python 3 that wheels and targets are taken from.
Minors == 7..MaxMinor

\* The tags of a filename: py is "cp" (cp3<minor>), "py3" or "py2.py3"; abi
\* is "cp" (the same cp3<minor>), "abi3" or "none".  py "untagged" is a
\* *.whl file whose name has no python and no abi field.
WheelTags ==
    {t \in [py : {"cp", "py3", "py2.py3", "untagged"}, minor : Minors \cup {0},
            abi : {"cp", "abi3", "none"}, plat : Platforms] :
        /\ (t.py = "cp") <=> (t.minor # 0)
        /\ (t.abi # "none") => (t.py = "cp")}

PyChars(t) ==
    CASE t.py = "cp" -> CpTagOf(3, t.minor)
      [] t.py = "py3" -> S_py3
      [] t.py = "py2.py3" -> S_py2py3

AbiChars(t) ==
    CASE t.abi = "cp" -> CpTagOf(3, t.minor)
      [] t.abi = "abi3" -> S_abi3
      [] t.abi = "none" -> S_none

FileName(t) ==
    IF t.py = "untagged"
    THEN S_pkg \o S_dash \o PlatformChars(t.plat) \o S_whl
    ELSE S_pkg \o S_dash \o PyChars(t) \o S_dash \o AbiChars(t) \o S_dash
               \o PlatformChars(t.plat) \o S_whl

\* The environments platform.system() and platform.machine() describe.
Targets ==
    {e \in [system : {"darwin", "linux", "windows"},
            machine : {"arm64", "x86_64", "aarch64", "amd64"},
            major : {3}, minor : Minors] :
        \/ e.system = "darwin" /\ e.machine \in {"arm64", "x86_64"}
        \/ e.system = "linux" /\ e.machine \in {"x86_64", "aarch64"}
        \/ e.system = "windows" /\ e.machine = "amd64"}

NoWheel == [tags |-> [py |-> "py3", minor |-> 0, abi |-> "none",
                      plat |-> "any"],
            name |-> <<>>]
NoTarget == [system |-> "linux", machine |-> "x86_64", major |-> 3,
             minor |-> 7]

\* The classifier at rest, in the behaviours of the other components.
ClassifierIdle ==
    /\ wheel = NoWheel
    /\ target = NoTarget
    /\ verdict = "none"

\* A wheel of the downloads directory and the interpreter that runs
\* clean_incompatible_wheels.py.
ClassifierInit ==
    /\ \E t \in WheelTags : wheel = [tags |-> t, name |-> FileName(t)]
    /\ target \in Targets
    /\ verdict = "none"

\* is_compatible_wheel(wheel_file.name, python_major, python_minor)
Classify ==
    /\ verdict = "none"
    /\ wheel.name # <<>>
    /\ verdict' = IF is_compatible_wheel(wheel.name, target)
                  THEN "yes" ELSE "no"
    /\ UNCHANGED <<wheel, target>>
    /\ UNCHANGED nonClassifier

\* ----------------------------------------------------- find_best_wheel
S_post == <<".", "p", "o", "s", "t">>
S_post0 == <<".", "p", "o", "s", "t", "0">>
S_targz == <<".", "t", "a", "r", ".", "g", "z">>
S_egg == <<".", "e", "g", "g">>

\* s.endswith(x)
EndsWith(s, x) ==
    Len(x) <= Len(s) /\ StartsWithAt(s, Len(s) - Len(x) + 1, x)

\* s.split(sep)[0]: what comes before the first sep, or all of s.
SplitHead(s, sep) ==
    IF Contains(s, sep)
    THEN LET i == CHOOSE k \in 1..Len(s) :
                    /\ StartsWithAt(s, k, sep)
                    /\ \A j \in 1..(k - 1) : ~StartsWithAt(s, j, sep)
         IN SubSeq(s, 1, i - 1)
    ELSE s

\* s.replace(x, ''), for a non-empty x
RECURSIVE RemoveAll(_, _)
RemoveAll(s, x) ==
    IF s = <<>> THEN <<>>
    ELSE IF StartsWithAt(s, 1, x)
    THEN RemoveAll(SubSeq(s, Len(x) + 1, Len(s)), x)
    ELSE <<Head(s)>> \o RemoveAll(Tail(s), x)

\* The characters of version strings, in code point order.
CharOrder ==
    <<".", "0", "1", "2", "3", "4", "5", "6", "7", "8", "9", "o", "p", "s", "t">>

CharRank(c) == CHOOSE i \in 1..Len(CharOrder) : CharOrder[i] = c

\* a < b on Python strings, the order sorted() uses.
RECURSIVE StrLess(_, _)
StrLess(a, b) ==
    IF b = <<>> THEN FALSE
    ELSE IF a = <<>> THEN TRUE
    ELSE IF Head(a) = Head(b) THEN StrLess(Tail(a), Tail(b))
    ELSE CharRank(Head(a)) < CharRank(Head(b))

\* CP_TAG = f"cp{PYTHON_VERSION}"
CP_TAG(env) == CpTagOf(env.major, env.minor)

\* PLATFORM_TAG of download_packages.py.
DownloadPlatformTag(env) ==
    IF env.system = "darwin"
    THEN IF env.machine \in {"arm64", "aarch64"}
         THEN PlatformChars("macosx_11_0_arm64")
         ELSE PlatformChars("macosx_10_13_x86_64")
    ELSE IF env.system = "linux"
    THEN <<"l", "i", "n", "u", "x", "_">>
            \o (IF env.machine = "x86_64" THEN S_x86_64 ELSE S_aarch64)
    ELSE PlatformChars("win_amd64")

\* ALT_PLATFORM_TAGS of download_packages.py, in the order of the list.
ALT_PLATFORM_TAGS(env) ==
    IF env.system = "darwin"
    THEN IF env.machine \in {"arm64", "aarch64"}
         THEN <<PlatformChars("macosx_10_15_universal2"),
                PlatformChars("macosx_11_0_universal2")>>
         ELSE <<<<"m", "a", "c", "o", "s", "x", "_", "1", "0", "_", "1", "2", "_", "x", "8", "6", "_", "6", "4">>,
                <<"m", "a", "c", "o", "s", "x", "_", "1", "0", "_", "1", "3", "_", "u", "n", "i", "v", "e", "r", "s", "a", "l", "2">>>>
    ELSE <<>>

\* What find_best_wheel returns for None.
NotFound == [packagetype |-> "none", filename |-> <<>>, release |-> <<>>]

\* releases.get(version, [])
ReleaseFiles(releases, version) ==
    IF version \in DOMAIN releases THEN releases[version] ELSE <<>>

\* The lookup without the step that adds .post0 (lines 115-120).
ResolveRelease_NoPost0Step(releases, version) ==
    LET exact == ReleaseFiles(releases, version)
        base_version == SplitHead(version, S_post)
        stripped == IF Contains(version, S_post)
                    THEN ReleaseFiles(releases, base_version) ELSE <<>>
        alt_version == RemoveAll(version, S_post0)
        version_base == IF Contains(version, S_post)
                        THEN SplitHead(version, S_post) ELSE version
        matching == {k \in DOMAIN releases :
                        StartsWithAt(k, 1, version_base) /\ releases[k] # <<>>}
        closest == CHOOSE k \in matching :
                        \A j \in matching : j = k \/ StrLess(j, k)
    IN IF exact # <<>> THEN [files |-> exact, version |-> version]
       ELSE IF stripped # <<>>
       THEN [files |-> stripped, version |-> base_version]
       ELSE IF EndsWith(version, S_post0)
               /\ ReleaseFiles(releases, alt_version) # <<>>
       THEN [files |-> ReleaseFiles(releases, alt_version),
             version |-> alt_version]
       ELSE IF matching # {}
       THEN [files |-> releases[closest], version |-> closest]
       ELSE [files |-> <<>>, version |-> version]

\* Lines 96-131: the files the lookup settles on and the version they are
\* filed under.
ResolveRelease(releases, version) ==
    LET exact == ReleaseFiles(releases, version)
        base_version == SplitHead(version, S_post)
        stripped == IF Contains(version, S_post)
                    THEN ReleaseFiles(releases, base_version) ELSE <<>>
        alt_version == RemoveAll(version, S_post0)
        post_version == version \o S_post0
        version_base == IF Contains(version, S_post)
                        THEN SplitHead(version, S_post) ELSE version
        matching == {k \in DOMAIN releases :
                        StartsWithAt(k, 1, version_base) /\ releases[k] # <<>>}
        \* the first of sorted(releases.keys(), reverse=True) that matches
        closest == CHOOSE k \in matching :
                        \A j \in matching : j = k \/ StrLess(j, k)
    IN IF exact # <<>> THEN [files |-> exact, version |-> version]
       ELSE IF stripped # <<>>
       THEN [files |-> stripped, version |-> base_version]
       ELSE IF EndsWith(version, S_post0)
               /\ ReleaseFiles(releases, alt_version) # <<>>
       THEN [files |-> ReleaseFiles(releases, alt_version),
             version |-> alt_version]
       ELSE IF ~EndsWith(version, S_post0) /\ ~Contains(version, S_post)
               /\ ReleaseFiles(releases, post_version) # <<>>
       THEN [files |-> ReleaseFiles(releases, post_version),
             version |-> post_version]
       ELSE IF matching # {}
       THEN [files |-> releases[closest], version |-> closest]
       ELSE [files |-> <<>>, version |-> version]

IsWheel(f) == f.packagetype = "bdist_wheel"

IsSdist(f) == f.packagetype = "sdist"

\* Lines 145-148: the wheels of the exact platform.
ExactPlatformMatch(f, env) ==
    /\ Contains(f.filename, CP_TAG(env))
    /\ Contains(f.filename, DownloadPlatformTag(env))

\* Lines 151-155, for one alt_tag.
AltPlatformMatch(f, env, alt_tag) ==
    /\ Contains(f.filename, CP_TAG(env))
    /\ Contains(f.filename, alt_tag)

\* Lines 158-161.
UniversalMatch(f) ==
    /\ Contains(f.filename, S_none_any)
    /\ (Contains(f.filename, S_py3) \/ Contains(f.filename, S_py2py3))

\* Lines 168-208: the wheel is appended to compatible_wheels.
IsCompatibleCandidate(f, env) ==
    LET py_tags == FindPyTags(f.filename)
        tags == {py_tags[i] : i \in 1..Len(py_tags)}
        stable_abi_tags == {t \in tags : Contains(t, S_abi)}
        other_cp_tags == {t \in tags : /\ StartsWithAt(t, 1, S_cp)
                                       /\ ~Contains(t, CP_TAG(env))
                                       /\ ~Contains(t, S_abi)}
    IN IF tags = {} THEN TRUE
       ELSE IF stable_abi_tags # {}
       THEN \E t \in stable_abi_tags :
               StableAbiAccepts(t, env.major, env.minor)
       ELSE IF (\E t \in tags : Contains(t, CP_TAG(env)))
               /\ other_cp_tags = {}
       THEN TRUE
       ELSE \E t \in tags : Contains(t, S_py3) \/ Contains(t, S_py2py3)

\* The first element of a sequence that is in the set S; S holds one.
FirstIn(seq, S) ==
    seq[CHOOSE i \in 1..Len(seq) :
            seq[i] \in S /\ \A j \in 1..(i - 1) : seq[j] \notin S]

Elements(seq) == {seq[i] : i \in 1..Len(seq)}

\* The cascade with the universal wheels tried first.
SelectFrom_UniversalFirst(files, env) ==
    LET wheel_files == SelectSeq(files, IsWheel)
        wheels == Elements(wheel_files)
        exact == {f \in wheels : ExactPlatformMatch(f, env)}
        alts == ALT_PLATFORM_TAGS(env)
        altHits == {a \in 1..Len(alts) :
                       \E f \in wheels : AltPlatformMatch(f, env, alts[a])}
        alt_tag == alts[CHOOSE a \in altHits : \A b \in altHits : a <= b]
        universal == {f \in wheels : UniversalMatch(f)}
        compatible_wheels == {f \in wheels : IsCompatibleCandidate(f, env)}
        source_files == SelectSeq(files, IsSdist)
    IN IF universal # {} THEN FirstIn(wheel_files, universal)
       ELSE IF exact # {} THEN FirstIn(wheel_files, exact)
       ELSE IF altHits # {}
       THEN FirstIn(wheel_files,
                    {f \in wheels : AltPlatformMatch(f, env, alt_tag)})
       ELSE IF compatible_wheels # {}
       THEN FirstIn(wheel_files, compatible_wheels)
       ELSE IF wheel_files # <<>> THEN wheel_files[1]
       ELSE IF source_files # <<>> THEN source_files[1]
       ELSE NotFound

\* The cascade with the source distribution tried before the last-resort
\* wheel.
SelectFrom_SourceBeforeLastResort(files, env) ==
    LET wheel_files == SelectSeq(files, IsWheel)
        wheels == Elements(wheel_files)
        exact == {f \in wheels : ExactPlatformMatch(f, env)}
        alts == ALT_PLATFORM_TAGS(env)
        altHits == {a \in 1..Len(alts) :
                       \E f \in wheels : AltPlatformMatch(f, env, alts[a])}
        alt_tag == alts[CHOOSE a \in altHits : \A b \in altHits : a <= b]
        universal == {f \in wheels : UniversalMatch(f)}
        compatible_wheels == {f \in wheels : IsCompatibleCandidate(f, env)}
        source_files == SelectSeq(files, IsSdist)
    IN IF exact # {} THEN FirstIn(wheel_files, exact)
       ELSE IF altHits # {}
       THEN FirstIn(wheel_files,
                    {f \in wheels : AltPlatformMatch(f, env, alt_tag)})
       ELSE IF universal # {} THEN FirstIn(wheel_files, universal)
       ELSE IF compatible_wheels # {}
       THEN FirstIn(wheel_files, compatible_wheels)
       ELSE IF source_files # <<>> THEN source_files[1]
       ELSE IF wheel_files # <<>> THEN wheel_files[1]
       ELSE NotFound

\* Lines 142-224: the cascade over the files of the resolved release.
SelectFrom(files, env) ==
    LET wheel_files == SelectSeq(files, IsWheel)
        wheels == Elements(wheel_files)
        exact == {f \in wheels : ExactPlatformMatch(f, env)}
        alts == ALT_PLATFORM_TAGS(env)
        altHits == {a \in 1..Len(alts) :
                       \E f \in wheels : AltPlatformMatch(f, env, alts[a])}
        alt_tag == alts[CHOOSE a \in altHits : \A b \in altHits : a <= b]
        universal == {f \in wheels : UniversalMatch(f)}
        compatible_wheels == {f \in wheels : IsCompatibleCandidate(f, env)}
        source_files == SelectSeq(files, IsSdist)
    IN IF exact # {} THEN FirstIn(wheel_files, exact)
       ELSE IF altHits # {}
       THEN FirstIn(wheel_files,
                    {f \in wheels : AltPlatformMatch(f, env, alt_tag)})
       ELSE IF universal # {} THEN FirstIn(wheel_files, universal)
       ELSE IF compatible_wheels # {}
       THEN FirstIn(wheel_files, compatible_wheels)
       ELSE IF wheel_files # <<>> THEN wheel_files[1]
       ELSE IF source_files # <<>> THEN source_files[1]
       ELSE NotFound

\* version=None
NoVersion == <<>>

find_best_wheel(info, version, env) ==
    LET asked == IF version = NoVersion THEN info.info.version ELSE version
        found == ResolveRelease(info.releases, asked)
    IN IF found.files = <<>> THEN NotFound
       ELSE SelectFrom(found.files, env)

\* ------------------------------------------ package records of the index
V_2_0 == <<"2", ".", "0">>
V_2_0_post0 == <<"2", ".", "0", ".", "p", "o", "s", "t", "0">>
V_2_0_post1 == <<"2", ".", "0", ".", "p", "o", "s", "t", "1">>
V_2_0_1 == <<"2", ".", "0", ".", "1">>
V_2_1 == <<"2", ".", "1">>

KnownVersions == {V_2_0, V_2_0_post0, V_2_0_post1, V_2_0_1, V_2_1}

\* A file of releases[version]: its packagetype and filename, and the
\* version it is filed under.
WheelFile(t, v) ==
    [packagetype |-> "bdist_wheel", filename |-> FileName(t), release |-> v]

SdistFile(v) ==
    [packagetype |-> "sdist", filename |-> S_pkg \o S_targz, release |-> v]

EggFile(v) ==
    [packagetype |-> "bdist_egg", filename |-> S_pkg \o S_egg, release |-> v]

Py3NoneAny == [py |-> "py3", minor |-> 0, abi |-> "none", plat |-> "any"]

\* The wheels a release is made of.
CatalogueTags ==
    {[py |-> "cp", minor |-> 10, abi |-> "cp", plat |-> "macosx_11_0_arm64"],
     [py |-> "cp", minor |-> 10, abi |-> "cp", plat |-> "macosx_11_0_universal2"],
     [py |-> "cp", minor |-> 10, abi |-> "cp", plat |-> "macosx_10_15_universal2"],
     [py |-> "cp", minor |-> 10, abi |-> "cp", plat |-> "win_amd64"],
     [py |-> "cp", minor |-> 9, abi |-> "abi3", plat |-> "manylinux2014_x86_64"],
     [py |-> "py2.py3", minor |-> 0, abi |-> "none", plat |-> "any"],
     Py3NoneAny}

Catalogue(v) ==
    {WheelFile(t, v) : t \in CatalogueTags} \cup {SdistFile(v), EggFile(v)}

\* The file lists of at most n files of release v.
FileLists(v, n) ==
    UNION {[1..k -> Catalogue(v)] : k \in 0..n}

\* The interpreters download_packages.py runs under.
SelectTargets ==
    {e \in Targets : e.minor \in {8, 10} /\ e.machine # "aarch64"}

\* A release of one version, with any files.
OneRelease ==
    {[info |-> [version |-> V_2_0], releases |-> (V_2_0 :> files)] :
        files \in FileLists(V_2_0, MaxFiles)}

\* What releases holds for a version: nothing, an empty list, or one file.
ListOf(kind, v) ==
    CASE kind = "empty" -> <<>>
      [] kind = "wheel" -> <<WheelFile(Py3NoneAny, v)>>
      [] kind = "sdist" -> <<SdistFile(v)>>
      [] kind = "egg" -> <<EggFile(v)>>

\* Releases of several versions, one file at most in each; the latest
\* version is 2.1.
ManyReleases ==
    {[info |-> [version |-> V_2_1],
      releases |-> [v \in {k \in KnownVersions : kind[k] # "absent"}
                        |-> ListOf(kind[v], v)]] :
        kind \in [KnownVersions ->
                     {"absent", "empty", "wheel", "sdist", "egg"}]}

NoPackageInfo == [info |-> [version |-> <<>>], releases |-> <<>>]

Pending == [packagetype |-> "pending", filename |-> <<>>, release |-> <<>>]

\* find_best_wheel at rest, in the behaviours of the other components.
SelectorIdle ==
    /\ package_info = NoPackageInfo
    /\ requested = NoVersion
    /\ interpreter = NoTarget
    /\ best = Pending

\* The JSON answer of the index for a package, the pinned version (or
\* none) and the interpreter.
SelectorInit ==
    /\ \/ package_info \in OneRelease /\ requested = V_2_0
       \/ /\ package_info \in ManyReleases
          /\ requested \in {V_2_0, V_2_0_post0, V_2_0_post1, NoVersion}
    /\ interpreter \in SelectTargets
    /\ best = Pending

\* wheel = find_best_wheel(package_info, version)
Select ==
    /\ best = Pending
    /\ package_info # NoPackageInfo
    /\ best' = find_best_wheel(package_info, requested, interpreter)
    /\ UNCHANGED <<package_info, requested, interpreter>>
    /\ UNCHANGED nonSelector

\* ------------------------------------------- download_packages.py main
\* packages = get_all_dependencies(): names in the order of the dict, each
\* with its pinned version or None.
PackageNames == <<"a", "b", "c", "d">>

PinnedVersion == "1.0"

\* A pinned version as get_dependencies_pip_freeze reads it from the part
\* name-2.0.post0: the regular expression ([0-9.]+) stops after the dot.
DottedVersion == "2.0."

\* A pinned version as parse_requirements_direct reads it from the line
\* "a==1.0  # pinned": all that follows the '==', stripped.
CommentedVersion == "1.0  # pinned"

\* package_info['info']['version'], the version line 473 fills in.
LatestVersion == "2.1"

RequirementLists ==
    UNION {{[i \in 1..k |-> [name |-> PackageNames[i], version |-> v[i]]] :
               v \in [1..k -> {"None", PinnedVersion, DottedVersion,
                              CommentedVersion}]} :
           k \in 0..MaxPackages}

NoStats == [total |-> 0, skipped |-> 0, downloaded |-> 0, failed |-> 0,
            already_exists |-> 0]

\* Lines 448-454.
InitialStats(pkgs) ==
    [total |-> Len(pkgs), skipped |-> 0, downloaded |-> 0, failed |-> 0,
     already_exists |-> 0]

\* if version is None: version = package_info['info']['version']
DetermineVersion(v) == IF v = "None" THEN LatestVersion ELSE v

\* The messages of download_file's failures.
FailureMessages == {"Failed after 5 attempts", "Error"}

\* The failure appended twice.
RecordFailure_Twice(failed, name, v, error) ==
    failed \o <<[name |-> name, version |-> v, error |-> error],
               [name |-> name, version |-> v, error |-> error]>>

\* stats['failed'] += 1; failed_packages.append((package_name, version, error))
RecordFailure(failed, name, v, error) ==
    Append(failed, [name |-> name, version |-> v, error |-> error])

\* The loop left at once, as by break.
Continue_LeavesLoop(pos, total) == total

\* The loop position after the package at position pos of total is done
\* with, by continue or by the end of the loop body.
Continue(pos, total) == pos + 1

\* The characters of the names, versions and messages the driver writes.
Chars(s) ==
    CASE
         s = "a" ->
          <<"a">>
      [] s = "b" ->
          <<"b">>
      [] s = "c" ->
          <<"c">>
      [] s = "d" ->
          <<"d">>
      [] s = "1.0" ->
          <<"1", ".", "0">>
      [] s = "2.0." ->
          <<"2", ".", "0", ".">>
      [] s = "1.0  # pinned" ->
          <<"1", ".", "0", " ", " ", "#", " ", "p", "i", "n", "n", "e", "d">>
      [] s = "2.1" ->
          <<"2", ".", "1">>
      [] s = "Could not fetch package information" ->
          <<"C", "o", "u", "l", "d", " ", "n", "o", "t", " ", "f", "e",
            "t", "c", "h", " ", "p", "a", "c", "k", "a", "g", "e", " ",
            "i", "n", "f", "o", "r", "m", "a", "t", "i", "o", "n">>
      [] s = "No suitable wheel file found" ->
          <<"N", "o", " ", "s", "u", "i", "t", "a", "b", "l", "e", " ",
            "w", "h", "e", "e", "l", " ", "f", "i", "l", "e", " ", "f",
            "o", "u", "n", "d">>
      [] s = "Failed after 5 attempts" ->
          <<"F", "a", "i", "l", "e", "d", " ", "a", "f", "t", "e", "r",
            " ", "5", " ", "a", "t", "t", "e", "m", "p", "t", "s">>
      [] s = "Error" ->
          <<"E", "r", "r", "o", "r">>

S_eqeq == <<"=", "=">>

S_hash == <<"#">>

\* Line 538: the header of failed_packages.txt.
FAILED_HEADER ==
    <<"#", " ", "F", "a", "i", "l", "e", "d", " ", "p", "a", "c", "k",
      "a", "g", "e", "s", " ", "-", " ", "r", "u", "n", " ", "r", "e",
      "t", "r", "y", "_", "f", "a", "i", "l", "e", "d", ".", "p", "y",
      " ", "t", "o", " ", "r", "e", "t", "r", "y", " ", "t", "h", "e",
      "s", "e", "\n">>

\* Lines 539-543: the line of one element of failed_packages,
\* f"{name}=={version}  # {error}\n" if version else f"{name}  # {error}\n"
FormatRecord(r) ==
    IF r.version # "None"
    THEN Chars(r.name) \o S_eqeq \o Chars(r.version) \o <<" ", " ", "#", " ">>
             \o Chars(r.error) \o <<"\n">>
    ELSE Chars(r.name) \o <<" ", " ", "#", " ">> \o Chars(r.error) \o <<"\n">>

RECURSIVE FormatRecords(_)
FormatRecords(failed) ==
    IF failed = <<>> THEN <<>>
    ELSE FormatRecord(Head(failed)) \o FormatRecords(Tail(failed))

\* failed_packages.txt is absent.
NoFailureFile == [exists |-> FALSE, text |-> <<>>]

\* Lines 535-543: failed_packages.txt opened with 'w', the header line and
\* one line per element of failed_packages.
WriteFailureFile(failed) ==
    [exists |-> TRUE, text |-> FAILED_HEADER \o FormatRecords(failed)]

\* --------------------------- retry_failed.py parse_failed_packages_file
\* The lines "for line in f" yields, each without its line end.
RECURSIVE SplitLines(_)
SplitLines(text) ==
    IF text = <<>> THEN <<>>
    ELSE IF Contains(text, <<"\n">>)
         THEN LET line == SplitHead(text, <<"\n">>)
              IN <<line>> \o SplitLines(SubSeq(text, Len(line) + 2, Len(text)))
         ELSE <<text>>

IsSpace(c) == c \in {" ", "\t", "\n", "\r"}

RECURSIVE LStrip(_)
LStrip(s) ==
    IF s # <<>> /\ IsSpace(Head(s)) THEN LStrip(Tail(s)) ELSE s

RECURSIVE RStrip(_)
RStrip(s) ==
    IF s # <<>> /\ IsSpace(s[Len(s)])
    THEN RStrip(SubSeq(s, 1, Len(s) - 1)) ELSE s

\* Nothing stripped.
Strip_Nothing(s) == s

\* s.strip()
Strip(s) == RStrip(LStrip(s))

\* s.rstrip('.')
RECURSIVE RStripDots(_)
RStripDots(s) ==
    IF s # <<>> /\ s[Len(s)] = "."
    THEN RStripDots(SubSeq(s, 1, Len(s) - 1)) ELSE s

\* s.split(sep, 1)[1], for an s that contains sep
AfterFirst(s, sep) ==
    SubSeq(s, Len(SplitHead(s, sep)) + Len(sep) + 1, Len(s))

\* The version of a pair whose line names none.
None == <<"None">>

\* Lines 40-55: the pairs one line of the file adds to the list, none for
\* an empty line, a comment line, and a line whose '==' is in the comment
\* only.
ParseRecordLine(raw) ==
    LET line == Strip(raw)
        package_line == Strip(SplitHead(line, S_hash))
    IN IF line = <<>> \/ StartsWithAt(line, 1, S_hash)
       THEN <<>>
       ELSE IF Contains(line, S_eqeq)
            THEN IF Contains(package_line, S_eqeq)
                 THEN <<[name |-> Strip(SplitHead(package_line, S_eqeq)),
                         version |->
                             RStripDots(Strip(AfterFirst(package_line,
                                                         S_eqeq)))]>>
                 ELSE <<>>
            ELSE <<[name |-> package_line, version |-> None]>>

RECURSIVE ParseRecordLines(_)
ParseRecordLines(lines) ==
    IF lines = <<>> THEN <<>>
    ELSE ParseRecordLine(Head(lines)) \o ParseRecordLines(Tail(lines))

\* Lines 30-57: the (name, version) pairs of failed_packages.txt, none if
\* the file is absent.
parse_failed_packages_file(file) ==
    IF ~file.exists THEN <<>>
    ELSE ParseRecordLines(SplitLines(file.text))

\* The driver at rest, in the behaviours of the other components.
MainAtRest ==
    /\ main_pc = "start"
    /\ packages = <<>>
    /\ position = 0
    /\ stats = NoStats
    /\ failed_packages = <<>>
    /\ exit_status = -1
    /\ outcomes = <<>>

MainIdle == MainAtRest /\ failed_file = NoFailureFile

\* The failed_packages.txt an earlier run can have left behind.
EarlierFailureFiles ==
    {NoFailureFile,
     WriteFailureFile(<<[name |-> "a", version |-> PinnedVersion,
                         error |-> "No suitable wheel file found"]>>)}

\* main is about to run; failed_packages.txt is absent or as an earlier
\* run left it.
MainInit ==
    /\ main_pc = "start"
    /\ packages = <<>>
    /\ position = 0
    /\ stats = NoStats
    /\ failed_packages = <<>>
    /\ failed_file \in EarlierFailureFiles
    /\ exit_status = -1
    /\ outcomes = <<>>

\* Lines 435-457: a run of main starts.  No packages: return 1.
MainStart ==
    /\ main_pc = "start"
    /\ \E pkgs \in RequirementLists :
          /\ packages' = pkgs
          /\ IF pkgs = <<>>
             THEN /\ main_pc' = "done"
                  /\ exit_status' = 1
                  /\ stats' = NoStats
             ELSE /\ main_pc' = "loop"
                  /\ exit_status' = -1
                  /\ stats' = InitialStats(pkgs)
    /\ position' = 0
    /\ failed_packages' = <<>>
    /\ outcomes' = <<>>
    /\ UNCHANGED failed_file
    /\ UNCHANGED nonMain

InLoop == main_pc = "loop" /\ position < Len(packages)

\* The package the loop is at.
Current == packages[position + 1]

\* Lines 464-469: get_package_info returns None.
LookupFails ==
    /\ InLoop
    /\ stats' = [stats EXCEPT !.failed = @ + 1]
    /\ failed_packages' =
          RecordFailure(failed_packages, Current.name, Current.version,
                        "Could not fetch package information")
    /\ outcomes' = Append(outcomes, [name |-> Current.name, kind |-> "lookup"])
    /\ position' = Continue(position, Len(packages))
    /\ UNCHANGED <<main_pc, packages, failed_file, exit_status>>
    /\ UNCHANGED nonMain

\* Lines 472-481: find_best_wheel returns None.
NoWheelFound ==
    /\ InLoop
    /\ stats' = [stats EXCEPT !.failed = @ + 1]
    /\ failed_packages' =
          RecordFailure(failed_packages, Current.name,
                        DetermineVersion(Current.version),
                        "No suitable wheel file found")
    /\ outcomes' = Append(outcomes, [name |-> Current.name, kind |-> "nowheel"])
    /\ position' = Continue(position, Len(packages))
    /\ UNCHANGED <<main_pc, packages, failed_file, exit_status>>
    /\ UNCHANGED nonMain

\* Lines 488-494: the file is in the downloads directory with the size the
\* index gives.
AlreadyDownloaded ==
    /\ InLoop
    /\ stats' = [stats EXCEPT !.already_exists = @ + 1]
    /\ outcomes' = Append(outcomes, [name |-> Current.name, kind |-> "exists"])
    /\ position' = Continue(position, Len(packages))
    /\ UNCHANGED <<main_pc, packages, failed_packages, failed_file,
                   exit_status>>
    /\ UNCHANGED nonMain

\* Lines 500-507: download_file returns (True, message).
DownloadSucceeds ==
    /\ InLoop
    /\ \E message \in {"already complete", "downloaded"} :
          stats' = IF message = "already complete"
                   THEN [stats EXCEPT !.already_exists = @ + 1]
                   ELSE [stats EXCEPT !.downloaded = @ + 1]
    /\ outcomes' = Append(outcomes, [name |-> Current.name, kind |-> "ok"])
    /\ position' = Continue(position, Len(packages))
    /\ UNCHANGED <<main_pc, packages, failed_packages, failed_file,
                   exit_status>>
    /\ UNCHANGED nonMain

\* Lines 500-511: download_file returns (False, message).
DownloadFails ==
    /\ InLoop
    /\ \E message \in FailureMessages :
          failed_packages' =
              RecordFailure(failed_packages, Current.name,
                            DetermineVersion(Current.version), message)
    /\ stats' = [stats EXCEPT !.failed = @ + 1]
    /\ outcomes' = Append(outcomes, [name |-> Current.name, kind |-> "download"])
    /\ position' = Continue(position, Len(packages))
    /\ UNCHANGED <<main_pc, packages, failed_file, exit_status>>
    /\ UNCHANGED nonMain

\* Lines 526-548: the loop is over; return 0, or write failed_packages.txt
\* and return 1.
MainReturns ==
    /\ main_pc = "loop"
    /\ position >= Len(packages)
    /\ main_pc' = "done"
    /\ IF stats.failed = 0
       THEN /\ exit_status' = 0
            /\ UNCHANGED failed_file
       ELSE /\ exit_status' = 1
            /\ failed_file' = IF failed_packages # <<>>
                              THEN WriteFailureFile(failed_packages)
                              ELSE failed_file
    /\ UNCHANGED <<packages, position, stats, failed_packages, outcomes>>
    /\ UNCHANGED nonMain

\* Lines 551-562: KeyboardInterrupt or another exception leaves main from
\* inside the loop; sys.exit(1).
MainAborts ==
    /\ main_pc = "loop"
    /\ main_pc' = "done"
    /\ exit_status' = 1
    /\ outcomes' = Append(outcomes, [name |-> "", kind |-> "abort"])
    /\ UNCHANGED <<packages, position, stats, failed_packages, failed_file>>
    /\ UNCHANGED nonMain

\* ------------------------------------- clean_incompatible_wheels.py main
\* The wheels the downloads directory can hold.
DirectoryTags ==
    {Py3NoneAny,
     [py |-> "cp", minor |-> 10, abi |-> "cp", plat |-> "manylinux2014_x86_64"],
     [py |-> "cp", minor |-> 9, abi |-> "cp", plat |-> "manylinux2014_x86_64"],
     [py |-> "cp", minor |-> 10, abi |-> "cp", plat |-> "macosx_11_0_arm64"]}

DirectoryNames == {FileName(t) : t \in DirectoryTags}

\* list(DOWNLOAD_DIR.glob("*.whl")): at most n names, each once.
Listings(n) ==
    UNION {{l \in [1..k -> DirectoryNames] :
               \A i, j \in 1..k : l[i] = l[j] => i = j} : k \in 0..n}

\* The interpreters clean_incompatible_wheels.py runs under.
CleanTargets ==
    {e \in Targets : /\ e.minor \in {9, 10}
                     /\ \/ e.system = "linux" /\ e.machine = "x86_64"
                        \/ e.system = "darwin" /\ e.machine = "arm64"}

NoDirectory == [exists |-> FALSE, wheels |-> <<>>]

\* Lines 124-132: the wheels is_compatible_wheel accepts, and the others.
CompatibleOf(wheel_files, e) ==
    SelectSeq(wheel_files, LAMBDA f : is_compatible_wheel(f, e))

\* Every wheel taken as incompatible.
IncompatibleOf_Everything(wheel_files, e) == wheel_files

IncompatibleOf(wheel_files, e) ==
    SelectSeq(wheel_files, LAMBDA f : ~is_compatible_wheel(f, e))

\* wheel_file.unlink()
Unlink(wheel_files, f) == SelectSeq(wheel_files, LAMBDA g : g # f)

\* The script at rest, in the behaviours of the other components.
CleanIdle ==
    /\ clean_pc = "start"
    /\ downloads = NoDirectory
    /\ clean_env = NoTarget
    /\ compatible = <<>>
    /\ incompatible = <<>>
    /\ remove_pos = 0
    /\ removed_count = 0
    /\ unlink_failures = 0
    /\ clean_exit = -1

\* The downloads directory is missing or holds some wheels.
CleanInit ==
    /\ clean_pc = "start"
    /\ \/ downloads = NoDirectory
       \/ \E l \in Listings(MaxWheels) : downloads = [exists |-> TRUE, wheels |-> l]
    /\ clean_env \in CleanTargets
    /\ compatible = <<>>
    /\ incompatible = <<>>
    /\ remove_pos = 0
    /\ removed_count = 0
    /\ unlink_failures = 0
    /\ clean_exit = -1

\* Lines 102-146: no directory, return 1; no wheels, return 0; else every
\* wheel is classified.
CleanStart ==
    /\ clean_pc = "start"
    /\ IF ~downloads.exists
       THEN /\ clean_pc' = "done" /\ clean_exit' = 1
            /\ UNCHANGED <<compatible, incompatible>>
       ELSE IF downloads.wheels = <<>>
       THEN /\ clean_pc' = "done" /\ clean_exit' = 0
            /\ UNCHANGED <<compatible, incompatible>>
       ELSE /\ clean_pc' = "remove"
            /\ compatible' = CompatibleOf(downloads.wheels, clean_env)
            /\ incompatible' = IncompatibleOf(downloads.wheels, clean_env)
            /\ UNCHANGED clean_exit
    /\ UNCHANGED <<downloads, clean_env, remove_pos, removed_count,
                   unlink_failures>>
    /\ UNCHANGED nonClean

Removing == clean_pc = "remove" /\ remove_pos < Len(incompatible)

\* Lines 147-151: the next incompatible wheel is removed.
UnlinkSucceeds ==
    /\ Removing
    /\ downloads' = [downloads EXCEPT
                        !.wheels = Unlink(@, incompatible[remove_pos + 1])]
    /\ removed_count' = removed_count + 1
    /\ remove_pos' = remove_pos + 1
    /\ UNCHANGED <<clean_pc, clean_env, compatible, incompatible,
                   unlink_failures, clean_exit>>
    /\ UNCHANGED nonClean

\* Lines 147-153: unlink raises; the exception is printed and the loop
\* goes on.
UnlinkFails ==
    /\ Removing
    /\ unlink_failures' = unlink_failures + 1
    /\ remove_pos' = remove_pos + 1
    /\ UNCHANGED <<clean_pc, downloads, clean_env, compatible, incompatible,
                   removed_count, clean_exit>>
    /\ UNCHANGED nonClean

\* Lines 155-172: the summary and "return 0", whatever the removals did.
CleanReturns ==
    /\ clean_pc = "remove"
    /\ remove_pos >= Len(incompatible)
    /\ clean_pc' = "done"
    /\ clean_exit' = 0
    /\ UNCHANGED <<downloads, clean_env, compatible, incompatible, remove_pos,
                   removed_count, unlink_failures>>
    /\ UNCHANGED nonClean

\* Lines 174-184: KeyboardInterrupt or another exception leaves main;
\* sys.exit(1).
CleanAborts ==
    /\ clean_pc = "remove"
    /\ clean_pc' = "done"
    /\ clean_exit' = 1
    /\ UNCHANGED <<downloads, clean_env, compatible, incompatible, remove_pos,
                   removed_count, unlink_failures>>
    /\ UNCHANGED nonClean

\* -------------------------------------------------- retry_failed.py main
\* The failures main of download_packages.py can record for a package of
\* its list: lines 468, 480 and 510.
FailureRecordsOf(pkg) ==
    {[name |-> pkg.name, version |-> pkg.version,
      error |-> "Could not fetch package information"]}
    \cup {[name |-> pkg.name, version |-> DetermineVersion(pkg.version),
           error |-> e] :
             e \in {"No suitable wheel file found"} \cup FailureMessages}

\* The failure lists of at most n packages.
FailureLists(n) ==
    UNION {{l \in [1..Len(pkgs) -> UNION {FailureRecordsOf(pkgs[i]) :
                                             i \in 1..Len(pkgs)}] :
               \A i \in 1..Len(pkgs) : l[i] \in FailureRecordsOf(pkgs[i])} :
           pkgs \in {q \in RequirementLists : Len(q) <= n}}

\* failed_packages.txt with its header and no record.
HeaderOnlyFile == [exists |-> TRUE, text |-> FAILED_HEADER]

NoRetryStats == [total |-> 0, success |-> 0, failed |-> 0,
                 already_downloaded |-> 0]

\* Lines 172-177.
InitialRetryStats(pkgs) ==
    [total |-> Len(pkgs), success |-> 0, failed |-> 0,
     already_downloaded |-> 0]

\* The messages retry_package returns with True: line 132 and
\* download_file's.
SuccessMessages == {"already downloaded", "already complete", "downloaded"}

\* A success counted as a failure.
CountSuccess_AsFailure(st, message) == [st EXCEPT !.failed = @ + 1]

\* Lines 184-188: if "already downloaded" in message.lower()
CountSuccess(st, message) ==
    IF message = "already downloaded"
    THEN [st EXCEPT !.already_downloaded = @ + 1]
    ELSE [st EXCEPT !.success = @ + 1]

\* The script at rest, in the behaviours of the other components.
RetryIdle ==
    /\ retry_pc = "start"
    /\ retry_list = <<>>
    /\ retry_pos = 0
    /\ retry_stats = NoRetryStats
    /\ retry_exit = -1
    /\ retry_results = <<>>
    /\ retry_raised = "none"
    /\ written = <<>>
    /\ file_before = NoFailureFile

\* main is about to run; failed_packages.txt is absent, holds the header
\* only, or is as a run of download_packages.py wrote it.
RetryInit ==
    /\ retry_pc = "start"
    /\ retry_list = <<>>
    /\ retry_pos = 0
    /\ retry_stats = NoRetryStats
    /\ retry_exit = -1
    /\ retry_results = <<>>
    /\ retry_raised = "none"
    /\ \/ written = <<>> /\ failed_file \in {NoFailureFile, HeaderOnlyFile}
       \/ /\ written \in FailureLists(MaxRecords) \ {<<>>}
          /\ failed_file = WriteFailureFile(written)
    /\ file_before = failed_file

\* Lines 154-177: no file, return 1; no pair, return 0; else the loop.
RetryStart ==
    /\ retry_pc = "start"
    /\ IF ~failed_file.exists
       THEN /\ retry_pc' = "done" /\ retry_exit' = 1
            /\ UNCHANGED <<retry_list, retry_stats>>
       ELSE LET pkgs == parse_failed_packages_file(failed_file)
            IN /\ retry_list' = pkgs
               /\ IF pkgs = <<>>
                  THEN /\ retry_pc' = "done" /\ retry_exit' = 0
                       /\ UNCHANGED retry_stats
                  ELSE /\ retry_pc' = "loop"
                       /\ retry_stats' = InitialRetryStats(pkgs)
                       /\ UNCHANGED retry_exit
    /\ UNCHANGED <<retry_pos, retry_results, retry_raised, written,
                   file_before, failed_file>>
    /\ UNCHANGED nonRetry

Retrying == retry_pc = "loop" /\ retry_pos < Len(retry_list)

\* Lines 180-188: retry_package returns (True, message).
RetrySucceeds ==
    /\ Retrying
    /\ \E message \in SuccessMessages :
          retry_stats' = CountSuccess(retry_stats, message)
    /\ retry_results' =
          Append(retry_results,
                 [name |-> retry_list[retry_pos + 1].name, success |-> TRUE])
    /\ retry_pos' = retry_pos + 1
    /\ UNCHANGED <<retry_pc, retry_list, retry_exit, retry_raised, written,
                   file_before, failed_file>>
    /\ UNCHANGED nonRetry

\* Lines 180-190: retry_package returns (False, message).
RetryFails ==
    /\ Retrying
    /\ retry_stats' = [retry_stats EXCEPT !.failed = @ + 1]
    /\ retry_results' =
          Append(retry_results,
                 [name |-> retry_list[retry_pos + 1].name, success |-> FALSE])
    /\ retry_pos' = retry_pos + 1
    /\ UNCHANGED <<retry_pc, retry_list, retry_exit, retry_raised, written,
                   file_before, failed_file>>
    /\ UNCHANGED nonRetry

\* Lines 204-221: the loop is over.  With no failure failed_file.unlink()
\* removes the file and main returns 0; else main returns 1.
RetryReturns ==
    /\ retry_pc = "loop"
    /\ retry_pos >= Len(retry_list)
    /\ retry_pc' = "done"
    /\ IF retry_stats.failed = 0
       THEN /\ failed_file' = NoFailureFile
            /\ retry_exit' = 0
       ELSE /\ UNCHANGED failed_file
            /\ retry_exit' = 1
    /\ UNCHANGED <<retry_list, retry_pos, retry_stats, retry_results,
                   retry_raised, written, file_before>>
    /\ UNCHANGED nonRetry

\* Lines 210-216: something is raised inside the try block, an OSError of
\* unlink or a KeyboardInterrupt; "except: pass" drops it and main returns
\* 0.  An interrupt after unlink has returned finds the file removed.
RetryUnlinkRaises ==
    /\ retry_pc = "loop"
    /\ retry_pos >= Len(retry_list)
    /\ retry_stats.failed = 0
    /\ retry_pc' = "done"
    /\ retry_exit' = 0
    /\ \E raised \in {"OSError", "KeyboardInterrupt"} :
          /\ retry_raised' = raised
          /\ \/ UNCHANGED failed_file
             \/ raised = "KeyboardInterrupt" /\ failed_file' = NoFailureFile
    /\ UNCHANGED <<retry_list, retry_pos, retry_stats, retry_results,
                   written, file_before>>
    /\ UNCHANGED nonRetry

\* Lines 223-234: KeyboardInterrupt or another exception leaves main from
\* inside the loop; sys.exit(1).
RetryAborts ==
    /\ retry_pc = "loop"
    /\ retry_pos < Len(retry_list) \/ retry_stats.failed > 0
    /\ retry_pc' = "done"
    /\ retry_exit' = 1
    /\ \E raised \in {"Exception", "KeyboardInterrupt"} :
          retry_raised' = raised
    /\ UNCHANGED <<retry_list, retry_pos, retry_stats, retry_results,
                   written, file_before, failed_file>>
    /\ UNCHANGED nonRetry

\* ---------------------------------------- check_corrupted_wheels.py main
\* What a file of the downloads directory can be: a sound archive; not a
\* zip archive (an error page, a truncated download); an archive on which
\* ZipFile or testzip raises (a damaged directory or compressed stream); an
\* archive with a member whose checksum or header is wrong.
Conditions == {"sound", "not_zip", "unreadable", "bad_member"}

\* zipfile.is_zipfile(wheel_file)
is_zipfile(f) == f.condition # "not_zip"

\* zf.testzip(): the name of the first bad member, "None" if there is
\* none, "raises" if an exception leaves ZipFile or testzip.
testzip(f) ==
    CASE f.condition = "unreadable" -> "raises"
      [] f.condition = "bad_member" -> "member"
      [] OTHER -> "None"

\* Lines 31-41: the wheel goes to corrupted if is_zipfile is false or an
\* exception is raised; what testzip returns is not looked at.
IsCorrupted(f) == ~is_zipfile(f) \/ testzip(f) = "raises"

\* list(DOWNLOAD_DIR.glob("*.whl")): at most n files, each name once.
ArchiveListings(n) ==
    {l \in UNION {[1..k -> [name : DirectoryNames, condition : Conditions]] :
                     k \in 0..n} :
        \A i, j \in 1..Len(l) : l[i].name = l[j].name => i = j}

\* The script at rest, in the behaviours of the other components.
CheckIdle ==
    /\ check_pc = "start"
    /\ archives = NoDirectory
    /\ scan_pos = 0
    /\ corrupted = <<>>
    /\ valid = <<>>
    /\ delete_pos = 0
    /\ check_exit = -1
    /\ check_raised = "none"
    /\ delete_failures = 0

\* The downloads directory is missing or holds some wheels.
CheckInit ==
    /\ check_pc = "start"
    /\ \/ archives = NoDirectory
       \/ \E l \in ArchiveListings(MaxWheels) :
             archives = [exists |-> TRUE, wheels |-> l]
    /\ scan_pos = 0
    /\ corrupted = <<>>
    /\ valid = <<>>
    /\ delete_pos = 0
    /\ check_exit = -1
    /\ check_raised = "none"
    /\ delete_failures = 0

\* Lines 15-28: no directory, return 1; no wheels, return 0; else the
\* first loop.
CheckStart ==
    /\ check_pc = "start"
    /\ IF ~archives.exists
       THEN check_pc' = "done" /\ check_exit' = 1
       ELSE IF archives.wheels = <<>>
       THEN check_pc' = "done" /\ check_exit' = 0
       ELSE check_pc' = "scan" /\ UNCHANGED check_exit
    /\ UNCHANGED <<archives, scan_pos, corrupted, valid, delete_pos,
                   check_raised, delete_failures>>
    /\ UNCHANGED nonCheck

\* Lines 30-41: the next wheel is looked at.
CheckWheel ==
    /\ check_pc = "scan"
    /\ scan_pos < Len(archives.wheels)
    /\ LET f == archives.wheels[scan_pos + 1]
       IN IF IsCorrupted(f)
          THEN corrupted' = Append(corrupted, f) /\ UNCHANGED valid
          ELSE valid' = Append(valid, f) /\ UNCHANGED corrupted
    /\ scan_pos' = scan_pos + 1
    /\ UNCHANGED <<check_pc, archives, delete_pos, check_exit, check_raised,
                   delete_failures>>
    /\ UNCHANGED nonCheck

\* Lines 43-47: the first loop is over.
CheckScanned ==
    /\ check_pc = "scan"
    /\ scan_pos >= Len(archives.wheels)
    /\ check_pc' = "delete"
    /\ UNCHANGED <<archives, scan_pos, corrupted, valid, delete_pos,
                   check_exit, check_raised, delete_failures>>
    /\ UNCHANGED nonCheck

Deleting == check_pc = "delete" /\ delete_pos < Len(corrupted)

\* Lines 48-51: the next corrupted wheel is removed.
DeleteSucceeds ==
    /\ Deleting
    /\ archives' = [archives EXCEPT
                       !.wheels = Unlink(@, corrupted[delete_pos + 1])]
    /\ delete_pos' = delete_pos + 1
    /\ UNCHANGED <<check_pc, scan_pos, corrupted, valid, check_exit,
                   check_raised, delete_failures>>
    /\ UNCHANGED nonCheck

\* Lines 48-53: unlink raises; the exception is printed and the loop goes
\* on.
DeleteFails ==
    /\ Deleting
    /\ delete_failures' = delete_failures + 1
    /\ delete_pos' = delete_pos + 1
    /\ UNCHANGED <<check_pc, archives, scan_pos, corrupted, valid, check_exit,
                   check_raised>>
    /\ UNCHANGED nonCheck

\* Lines 55-63: the summary and "return 0", whatever the removals did.
CheckReturns ==
    /\ check_pc = "delete"
    /\ delete_pos >= Len(corrupted)
    /\ check_pc' = "done"
    /\ check_exit' = 0
    /\ UNCHANGED <<archives, scan_pos, corrupted, valid, delete_pos,
                   check_raised, delete_failures>>
    /\ UNCHANGED nonCheck

\* Lines 65-67: sys.exit(main()) stands in no try statement, and the
\* handlers of lines 39 and 52 are for Exception, which KeyboardInterrupt
\* is not: an interrupt in either loop ends the interpreter with a
\* traceback and by the signal, the status a parent process reads as -2.
CheckInterrupted ==
    /\ check_pc \in {"scan", "delete"}
    /\ check_pc' = "done"
    /\ check_raised' = "KeyboardInterrupt"
    /\ check_exit' = -2
    /\ UNCHANGED <<archives, scan_pos, corrupted, valid, delete_pos,
                   delete_failures>>
    /\ UNCHANGED nonCheck

InitClassify ==
    ClassifierInit /\ FetcherIdle /\ SelectorIdle /\ MainIdle /\ CleanIdle
    /\ RetryIdle /\ CheckIdle

NextClassify == Classify

SpecClassify == InitClassify /\ [][NextClassify]_vars

InitSelect ==
    SelectorInit /\ FetcherIdle /\ ClassifierIdle /\ MainIdle /\ CleanIdle
    /\ RetryIdle /\ CheckIdle

NextSelect == Select

SpecSelect == InitSelect /\ [][NextSelect]_vars

InitMain ==
    MainInit /\ FetcherIdle /\ ClassifierIdle /\ SelectorIdle /\ CleanIdle
    /\ RetryIdle /\ CheckIdle

NextMain ==
    \/ MainStart
    \/ LookupFails
    \/ NoWheelFound
    \/ AlreadyDownloaded
    \/ DownloadSucceeds
    \/ DownloadFails
    \/ MainReturns
    \/ MainAborts

SpecMain == InitMain /\ [][NextMain]_vars

InitRetry ==
    RetryInit /\ FetcherIdle /\ ClassifierIdle /\ SelectorIdle /\ MainAtRest
    /\ CleanIdle /\ CheckIdle

NextRetry ==
    \/ RetryStart
    \/ RetrySucceeds
    \/ RetryFails
    \/ RetryReturns
    \/ RetryUnlinkRaises
    \/ RetryAborts

SpecRetry == InitRetry /\ [][NextRetry]_vars

InitCheck ==
    CheckInit /\ FetcherIdle /\ ClassifierIdle /\ SelectorIdle /\ MainIdle
    /\ CleanIdle /\ RetryIdle

NextCheck ==
    \/ CheckStart
    \/ CheckWheel
    \/ CheckScanned
    \/ DeleteSucceeds
    \/ DeleteFails
    \/ CheckReturns
    \/ CheckInterrupted

SpecCheck == InitCheck /\ [][NextCheck]_vars

InitClean ==
    CleanInit /\ FetcherIdle /\ ClassifierIdle /\ SelectorIdle /\ MainIdle
    /\ RetryIdle /\ CheckIdle

NextClean ==
    \/ CleanStart
    \/ UnlinkSucceeds
    \/ UnlinkFails
    \/ CleanReturns
    \/ CleanAborts

SpecClean == InitClean /\ [][NextClean]_vars

Init ==
    FetcherInit /\ ClassifierIdle /\ SelectorIdle /\ MainIdle /\ CleanIdle
    /\ RetryIdle /\ CheckIdle

Next ==
    \/ Invoke
    \/ UrlopenFails
    \/ UrlopenAnswered
    \/ OpenFails
    \/ ReadChunk
    \/ ReadEnd
    \/ TransferRaises
    \/ Interrupt

Spec == Init /\ [][Next]_vars

\* ================================================================ claims
\* The last invocation has returned (it was not interrupted).
Returned == pc = "idle" /\ calls > 0 /\ result.msg # "interrupted"

Succeeded == Returned /\ result.ok

\* C1: whenever download_file reports success ('downloaded' or 'already
\* complete') and the server reports the size of the resource, the file on
\* disk has exactly that many bytes.
C1_SuccessHasRemoteSize ==
    (Succeeded /\ srvLength) =>
        (disk.exists /\ Len(disk.data) = Len(remote))

\* C2: an attempt that follows one that failed with a network-layer error
\* after writing bytes asks for the range that starts at the current
\* on-disk length and appends to the file, truncating nothing.
C2_RetryResumesAtDiskLength ==
    (pc = "transfer" /\ attempt > 0 /\ h.wroteFail > 0
        /\ IsNetworkError(h.lastErr)) =>
        (/\ h.reqStart = h.lenAtReq
         /\ h.mode = "ab"
         /\ h.lenAtOpen = h.lenAtReq)

\* C3: when an invocation was interrupted with N > 0 bytes on disk and
\* download_file is invoked again with resume allowed, the first request asks
\* for the range starting at byte N and appends, and a successful end leaves
\* the file byte-identical to the resource. Stated for a server that sends
\* Content-Length, where every transfer is verified.
C3_ResumeAfterInterrupt ==
    (calls > 1 /\ h.prevMsg = "interrupted" /\ resume /\ srvLength
        /\ Len(h.startDisk.data) > 0) =>
        (/\ (pc = "transfer" /\ attempt = 0) =>
                (h.reqStart = Len(h.startDisk.data) /\ h.mode = "ab")
         /\ Succeeded => disk.data = remote)

C5_DownloadedMeansAllDelivered ==
    (Returned /\ result.msg = "downloaded") =>
        Len(disk.data) = h.lenAtOpen + h.bodyLen

\* C5 amended: the same, for a response that carries a Content-Length
\* header.
C5_DownloadedMeansAllDeliveredGivenLength ==
    (Returned /\ result.msg = "downloaded" /\ h.header) =>
        Len(disk.data) = h.lenAtOpen + h.bodyLen

C5_Witness ==
    /\ Returned /\ result.msg = "downloaded" /\ h.header
    /\ h.lenAtOpen > 0 /\ h.bodyLen > 1

\* C6: a size mismatch found after a transfer is retried like a network
\* failure: a Failure for it is returned only from the last attempt.
C6_SizeMismatchIsRetried ==
    (Returned /\ ~result.ok /\ result.err = "Exception") =>
        attempt = MAX_RETRIES - 1

\* C7: on network-layer errors download_file makes at most MAX_RETRIES
\* attempts, sleeps RETRY_DELAY between consecutive attempts, returns a
\* Failure for a network error only from the last attempt, and that Failure
\* carries the last attempt's error.
C7_NetworkErrorsRetriedToCeiling ==
    /\ attempt < MAX_RETRIES
    /\ h.requests <= MAX_RETRIES
    /\ h.slept = RETRY_DELAY * attempt
    /\ (Returned /\ ~result.ok /\ IsNetworkError(result.err)) =>
          (/\ attempt = MAX_RETRIES - 1
           /\ h.requests = MAX_RETRIES
           /\ result.msg = "Failed after"
           /\ result.err = h.lastErr)
    /\ (Returned /\ IsNetworkError(h.lastErr)) =>
          (result.ok \/ ~IsNetworkError(result.err)
              \/ attempt = MAX_RETRIES - 1)

C7_Witness ==
    /\ Returned /\ result.msg = "Failed after"
    /\ result.err = "TimeoutError"
    /\ h.slept = RETRY_DELAY * (MAX_RETRIES - 1)

\* C8: an exception that is no network-layer error, raised during an
\* attempt, makes download_file return a Failure from that very attempt.
C8_LocalErrorFailsAtOnce ==
    (calls > 0 /\ h.lastErr \notin NetworkErrors \cup {"none"}) =>
        (/\ pc = "idle"
         /\ ~result.ok
         /\ result.msg = "Error"
         /\ result.err = h.lastErr
         /\ h.requests = attempt + 1)

C8_Witness ==
    /\ Returned /\ result.msg = "Error" /\ result.err = "OSError"
    /\ attempt > 0 /\ attempt < MAX_RETRIES - 1

\* C9: a destination that was absent or held a prefix of the resource when
\* the first fetch began holds a prefix of the resource at every point.
C9_DiskIsPrefixOfResource ==
    disk.exists => IsPrefix(disk.data, remote)

\* The wheel has been classified.
Classified == verdict # "none"

\* A wheel whose only interpreter tag is the stable-ABI tag cp3<m>-abi3, on
\* a platform the early exits do not decide.
StableAbiOnly ==
    /\ wheel.tags.py = "cp" /\ wheel.tags.abi = "abi3"
    /\ ~Contains(wheel.name, S_universal2)
    /\ ~PlatformRejects(wheel.name, target)

\* C10: a wheel whose only tag is the stable-ABI tag of version (3, m) is
\* compatible with target (3, n) if and only if n >= m, two-digit minors
\* such as cp310-abi3 included.
C10_StableAbiIffNotOlder ==
    (Classified /\ StableAbiOnly /\ target.major = 3) =>
        ((verdict = "yes") <=> (target.minor >= wheel.tags.minor))

\* A wheel with an exact-interpreter tag cp3<m> for a minor other than the
\* target's, and no stable-ABI tag.
ExactTagOfOtherMinor ==
    /\ wheel.tags.py = "cp" /\ wheel.tags.abi # "abi3"
    /\ wheel.tags.minor # target.minor

\* C11 as stated: a wheel with an exact-interpreter tag for (3, m), m other
\* than the target's minor, and no stable-ABI tag is incompatible with every
\* target environment.
C11_OtherMinorRejected ==
    (Classified /\ ExactTagOfOtherMinor) => verdict = "no"

\* The two early exits that come before the interpreter tags are read.
EarlyAccept ==
    \/ Contains(wheel.name, S_none_any)
    \/ /\ PLATFORM_TAG(target.system, target.machine) # NoneTag
       /\ Contains(wheel.name, S_universal2)

\* C11: a wheel with an exact-interpreter tag for (3, m), m other than the
\* target's minor, and no stable-ABI tag is incompatible, unless its name
\* carries none-any or (on a darwin or linux target) universal2.
C11_OtherMinorRejectedAfterEarlyExits ==
    (Classified /\ ExactTagOfOtherMinor /\ ~EarlyAccept) => verdict = "no"

C11_Witness ==
    /\ Classified /\ ExactTagOfOtherMinor /\ ~EarlyAccept
    /\ ~PlatformRejects(wheel.name, target)
    /\ wheel.tags.abi = "cp" /\ wheel.tags.minor = 9 /\ target.minor = 10
    /\ verdict = "no"

\* C12 as stated: a *.whl name with no interpreter and no ABI tag is
\* compatible with every target environment.
C12_UntaggedAccepted ==
    (Classified /\ wheel.tags.py = "untagged") => verdict = "yes"

\* C12: a *.whl name with no interpreter and no ABI tag is compatible,
\* unless the platform override rejects the name.
C12_UntaggedAcceptedAfterOverride ==
    (Classified /\ wheel.tags.py = "untagged"
        /\ ~PlatformRejects(wheel.name, target)) => verdict = "yes"

C12_Witness ==
    /\ Classified /\ wheel.tags.py = "untagged"
    /\ FindPyTags(wheel.name) = <<>>
    /\ wheel.tags.plat = "manylinux2014_x86_64"
    /\ target.system = "linux" /\ target.machine = "x86_64"
    /\ verdict = "yes"

\* C13: a name that carries none-any is compatible with every target,
\* whatever other tag it carries.
C13_NoneAnyAccepted ==
    (Classified /\ Contains(wheel.name, S_none_any)) => verdict = "yes"

C13_Witness ==
    /\ Classified /\ Contains(wheel.name, S_none_any)
    /\ wheel.tags.py = "cp" /\ wheel.tags.minor # target.minor
    /\ verdict = "yes"

\* The operating system and the architecture a platform tag is built for.
PlatformSystem(plat) ==
    IF plat \in {"manylinux2014_x86_64", "manylinux2014_aarch64"} THEN "linux"
    ELSE IF plat \in {"win_amd64", "win_arm64"} THEN "windows"
    ELSE IF plat = "any" THEN "any"
    ELSE "darwin"

PlatformMachine(plat) ==
    IF plat \in {"manylinux2014_x86_64", "macosx_10_9_x86_64",
                 "macosx_10_13_x86_64"} THEN "x86_64"
    ELSE IF plat = "manylinux2014_aarch64" THEN "aarch64"
    ELSE IF plat \in {"macosx_11_0_arm64", "win_arm64"} THEN "arm64"
    ELSE IF plat = "win_amd64" THEN "amd64"
    ELSE "all"

\* The wheel's platform tag is for the target's operating system and for
\* another architecture than the target's.
OtherArchitecture ==
    /\ PlatformSystem(wheel.tags.plat) = target.system
    /\ PlatformMachine(wheel.tags.plat) \notin {target.machine, "all"}

\* C14: a wheel whose platform tag is for the other architecture of the
\* target's operating system, with no universal2 and no none-any in its
\* name, is incompatible whatever interpreter tag it carries.
C14_OtherArchitectureRejected ==
    (Classified /\ OtherArchitecture
        /\ ~Contains(wheel.name, S_universal2)
        /\ ~Contains(wheel.name, S_none_any)) => verdict = "no"

\* find_best_wheel has returned.
Selected == best # Pending

\* The version find_best_wheel looks up, the release it settles on, and
\* the binary artifacts (wheels) of that release in list order.
Asked == IF requested = NoVersion THEN package_info.info.version ELSE requested

Resolved == ResolveRelease(package_info.releases, Asked)

Binary == SelectSeq(Resolved.files, IsWheel)

FirstOf(I) == CHOOSE i \in I : \A j \in I : i <= j

\* The positions in Binary of the three first tiers.
ExactTier ==
    {i \in 1..Len(Binary) :
        /\ Contains(Binary[i].filename, CP_TAG(interpreter))
        /\ Contains(Binary[i].filename, DownloadPlatformTag(interpreter))}

AlternateTier ==
    {i \in 1..Len(Binary) :
        /\ Contains(Binary[i].filename, CP_TAG(interpreter))
        /\ \E a \in 1..Len(ALT_PLATFORM_TAGS(interpreter)) :
              Contains(Binary[i].filename, ALT_PLATFORM_TAGS(interpreter)[a])}

UniversalTier ==
    {i \in 1..Len(Binary) :
        /\ Contains(Binary[i].filename, S_none_any)
        /\ \/ Contains(Binary[i].filename, S_py3)
           \/ Contains(Binary[i].filename, S_py2py3)}

\* C15: over the wheels of the resolved release, the first wheel with the
\* exact interpreter tag and the exact platform tag is returned; if there
\* is none, a wheel with the exact interpreter tag and an alternate
\* platform tag; if there is none, the first py3 none-any wheel.
C15_PriorityCascade ==
    (Selected /\ Resolved.files # <<>>) =>
        /\ ExactTier # {} => best = Binary[FirstOf(ExactTier)]
        /\ (ExactTier = {} /\ AlternateTier # {}) =>
               \E i \in AlternateTier : best = Binary[i]
        /\ (ExactTier = {} /\ AlternateTier = {} /\ UniversalTier # {}) =>
               best = Binary[FirstOf(UniversalTier)]

C15_Witness ==
    /\ Selected
    /\ ExactTier # {} /\ AlternateTier # {} /\ UniversalTier # {}
    /\ FirstOf(ExactTier) = 3
    /\ best = Binary[3]

\* No wheel of the resolved release is of the three first tiers.
FourthTier ==
    /\ Resolved.files # <<>>
    /\ ExactTier = {} /\ AlternateTier = {} /\ UniversalTier = {}

\* The positions in Binary of the wheels is_compatible_wheel accepts for
\* the interpreter.
ClassifierAccepted ==
    {i \in 1..Len(Binary) :
        is_compatible_wheel(Binary[i].filename, interpreter)}

\* C16: in the fourth tier the candidates are exactly the wheels that
\* is_compatible_wheel accepts for the same interpreter, and the first of
\* them is returned.
C16_FourthTierIsClassifier ==
    (Selected /\ FourthTier) =>
        /\ \A i \in 1..Len(Binary) :
              IsCompatibleCandidate(Binary[i], interpreter)
                  <=> i \in ClassifierAccepted
        /\ ClassifierAccepted # {} => best = Binary[FirstOf(ClassifierAccepted)]

\* C17: when the resolved release has a wheel, a wheel of that release is
\* returned, the first one if no wheel qualifies in tiers 1 to 4; a source
\* distribution is returned only when the release has no wheel, and it
\* is the first one.
C17_LastResort ==
    (Selected /\ Resolved.files # <<>>) =>
        /\ Binary # <<>> =>
              /\ \E i \in 1..Len(Binary) : best = Binary[i]
              /\ (FourthTier /\ \A i \in 1..Len(Binary) :
                        ~IsCompatibleCandidate(Binary[i], interpreter))
                    => best = Binary[1]
        /\ IsSdist(best) =>
              /\ Binary = <<>>
              /\ best = SelectSeq(Resolved.files, IsSdist)[1]

C17_Witness ==
    /\ Selected /\ FourthTier
    /\ \A i \in 1..Len(Binary) :
          ~IsCompatibleCandidate(Binary[i], interpreter)
    /\ IsSdist(Resolved.files[1]) /\ Len(Binary) = 2
    /\ Binary[1] # Binary[2]
    /\ best = Binary[1]

\* Some version of the index that starts with the base of the asked
\* version (the asked version, its form without the post suffix and its
\* form with .post0 are such versions) has a non-empty file list.
SomeVariantHasFiles ==
    \E k \in DOMAIN package_info.releases :
        /\ StartsWithAt(k, 1, SplitHead(Asked, S_post))
        /\ package_info.releases[k] # <<>>

\* The asked version V has no files and no post suffix, and V.post0 has
\* files.
OnlyPost0HasFiles ==
    /\ ReleaseFiles(package_info.releases, Asked) = <<>>
    /\ ~Contains(Asked, S_post)
    /\ ReleaseFiles(package_info.releases, Asked \o S_post0) # <<>>

\* C18 as stated: when V has no files, V has no post suffix and V.post0
\* has files, the selection is made from the files of V.post0; and NotFound
\* is returned only if no variant of the version has a non-empty list.
C18_VersionVariants ==
    Selected =>
        /\ OnlyPost0HasFiles =>
              Resolved.files = package_info.releases[Asked \o S_post0]
        /\ best = NotFound => ~SomeVariantHasFiles

\* C18: when V has no files, V has no post suffix and V.post0 has files,
\* the selection is made from the files of V.post0; and NotFound is
\* returned only if no variant of the version has a non-empty list, or
\* the list settled on holds neither a wheel nor a source distribution.
C18_VersionVariantsOfWheelsAndSources ==
    Selected =>
        /\ OnlyPost0HasFiles =>
              /\ Resolved.files = package_info.releases[Asked \o S_post0]
              /\ best \in Elements(Resolved.files) \cup {NotFound}
        /\ best = NotFound =>
              \/ ~SomeVariantHasFiles
              \/ \A i \in 1..Len(Resolved.files) :
                    ~IsWheel(Resolved.files[i]) /\ ~IsSdist(Resolved.files[i])

C18_Witness ==
    /\ Selected /\ OnlyPost0HasFiles
    /\ requested = V_2_0
    /\ ReleaseFiles(package_info.releases, V_2_0_post1) # <<>>
    /\ ReleaseFiles(package_info.releases, V_2_0_1) # <<>>
    /\ best # NotFound /\ best.release = V_2_0_post0

\* The run of main was cut short by an interrupt or an unexpected exception.
Aborted == \E i \in 1..Len(outcomes) : outcomes[i].kind = "abort"

\* What happened to the packages the loop is done with.
Handled == SelectSeq(outcomes, LAMBDA o : o.kind # "abort")

\* The entries of the failure list for the package at position i.
EntriesOf(i) ==
    {j \in 1..Len(failed_packages) :
        failed_packages[j].name = packages[i].name}

\* C19: the packages are processed once each in the order of the list; a
\* package that fails (lookup, no wheel, download) has exactly one entry in
\* the failure list and one that does not fail has none; and a run that is
\* not cut short has processed every package when it returns, whatever
\* failed.
C19_FailuresAreIsolated ==
    /\ Len(Handled) = position
    /\ position <= Len(packages)
    /\ \A i \in 1..Len(Handled) :
          /\ Handled[i].name = packages[i].name
          /\ Cardinality(EntriesOf(i)) =
                IF Handled[i].kind \in {"lookup", "nowheel", "download"}
                THEN 1 ELSE 0
    /\ (main_pc = "done" /\ ~Aborted) => position = Len(packages)

C19_Witness ==
    /\ main_pc = "done" /\ ~Aborted
    /\ Len(packages) = 3 /\ position = 3
    /\ Handled[1].kind = "lookup"
    /\ Handled[2].kind = "ok"
    /\ Handled[3].kind = "download"
    /\ Len(failed_packages) = 2

\* C20: a run of a driver in which a deletion failed does not exit with
\* status 0 (here the run of clean_incompatible_wheels.py).
C20_ExitZeroOnlyOnFullSuccess ==
    (clean_pc = "done" /\ clean_exit = 0) => unlink_failures = 0

\* The run of main went through its whole list and returned.
RanToTheEnd == main_pc = "done" /\ ~Aborted /\ packages # <<>>

\* C22: when a run of download_packages.py main has ended, the records of
\* failed_packages.txt are exactly the failures of that run: none if every
\* package succeeded, whatever an earlier run left in the file.
C22_FileRewrittenEveryRun ==
    RanToTheEnd =>
        IF failed_packages = <<>>
        THEN ~failed_file.exists \/ failed_file.text = FAILED_HEADER
        ELSE failed_file = WriteFailureFile(failed_packages)

\* The outcomes that are failures, in processing order.
FailuresHandled ==
    SelectSeq(Handled, LAMBDA o : o.kind \in {"lookup", "nowheel", "download"})

CountersConserved ==
    /\ stats.downloaded + stats.already_exists + stats.failed = position
    /\ stats.failed = Len(failed_packages)
    /\ stats.skipped = 0
    /\ RanToTheEnd =>
          /\ stats.downloaded + stats.already_exists + stats.failed
                 = stats.total
          /\ stats.total = Len(packages)
          /\ stats.failed > 0 =>
                 failed_file = WriteFailureFile(failed_packages)
    /\ Len(FailuresHandled) = Len(failed_packages)
    /\ \A i \in 1..Len(failed_packages) :
          failed_packages[i].name = FailuresHandled[i].name

FileWrittenOnlyOnFailure ==
    failed_file' # failed_file =>
        /\ stats.failed > 0
        /\ main_pc = "loop" /\ main_pc' = "done" /\ position = Len(packages)
        /\ failed_file' = WriteFailureFile(failed_packages)

\* C26: after each package, downloaded + already_exists + failed is the
\* number of packages processed and failed is the length of the failure
\* list; at the end of a run the three sum to the total and skipped is 0;
\* the failure file is written if and only if failed > 0, and then it holds
\* the header and one line per failure in processing order.
C26_StatisticsConservation ==
    [][CountersConserved' /\ FileWrittenOnlyOnFailure]_vars

C26_Witness ==
    /\ RanToTheEnd
    /\ Len(packages) = 3
    /\ stats.downloaded = 1 /\ stats.already_exists = 0 /\ stats.failed = 2
    /\ Handled[1].kind = "nowheel" /\ Handled[3].kind = "download"
    /\ failed_file = WriteFailureFile(failed_packages)
    /\ Len(SplitLines(failed_file.text)) = 3

\* The pruning run went through its removals, each of which succeeded.
Pruned ==
    /\ clean_pc = "done" /\ clean_exit = 0
    /\ remove_pos = Len(incompatible)
    /\ unlink_failures = 0

\* C24: the pruning run classifies every wheel of the directory; a wheel
\* the classifier accepts is never deleted; and after a run whose
\* deletions all succeeded the wheels of the directory are exactly the
\* accepted ones, so that a second run finds nothing to delete.
C24_PruningKeepsExactlyTheAccepted ==
    (clean_pc # "start" /\ downloads.exists) =>
        /\ \A f \in Elements(compatible) :
              /\ f \in Elements(downloads.wheels)
              /\ is_compatible_wheel(f, clean_env)
        /\ \A f \in Elements(incompatible) :
              ~is_compatible_wheel(f, clean_env)
        /\ Elements(downloads.wheels) \subseteq
              Elements(compatible) \cup Elements(incompatible)
        /\ Pruned =>
              /\ downloads.wheels = compatible
              /\ IncompatibleOf(downloads.wheels, clean_env) = <<>>

C24_Witness ==
    /\ Pruned
    /\ removed_count = 1
    /\ Len(compatible) = 1
    /\ downloads.wheels = compatible

\* The names of the records failed_packages.txt holds.
PersistedNames ==
    {parse_failed_packages_file(failed_file)[i].name :
        i \in 1..Len(parse_failed_packages_file(failed_file))}

\* C21: after a run of retry_failed.py in which nothing was raised,
\* failed_packages.txt no longer lists a package whose retry succeeded in
\* that run.
C21_SucceededRetriesLeaveTheList ==
    (retry_pc = "done" /\ retry_raised = "none") =>
        \A i \in 1..Len(retry_results) :
            retry_results[i].success =>
                retry_results[i].name \notin PersistedNames

\* The pair of a failure record, as it was written.
PairOf(r) ==
    [name |-> Chars(r.name),
     version |-> IF r.version = "None" THEN None ELSE Chars(r.version)]

\* The file was written by download_packages.py and has been parsed.
Parsed == retry_pc # "start" /\ written # <<>>

BeforeComment(v) == RStrip(SplitHead(v, S_hash))

AllRetriesSucceeded ==
    /\ retry_list # <<>>
    /\ Len(retry_results) = Len(retry_list)
    /\ \A i \in 1..Len(retry_results) : retry_results[i].success

SomeRetryFailed == \E i \in 1..Len(retry_results) : ~retry_results[i].success

\* The run found failed_packages.txt and was not left through the handlers
\* of lines 226-234.
RetryRanToTheEnd ==
    /\ retry_pc = "done"
    /\ file_before.exists
    /\ Len(retry_results) = Len(retry_list)
    /\ ~(retry_raised # "none" /\ retry_exit = 1)

C23_InterruptExitsWithOne ==
    (check_pc = "done" /\ check_raised = "KeyboardInterrupt") =>
        check_exit = 1

\* C25: after a run of check_corrupted_wheels.py whose deletions all
\* succeeded, no file is left that is not a zip archive or for which testzip
\* reports a failing member or raises, and every file that passes is left.
C25_CorruptDeletedSoundKept ==
    (/\ check_pc = "done" /\ check_raised = "none"
     /\ archives.exists /\ delete_failures = 0) =>
        /\ \A f \in Elements(archives.wheels) : f.condition = "sound"
        /\ \A f \in Elements(corrupted) : f.condition # "sound"
        /\ \A f \in Elements(valid) : f \in Elements(archives.wheels)

====
